---------------------------- MODULE Spec2Model ----------------------------
(***************************************************************************)
(* Member import: upload -> parse -> (review) -> commit.                   *)
(*                                                                         *)
(* The model follows the import router of src/server/src/services/email.ts *)
(* (lines 110-957).  Every request handler is an async function; control   *)
(* can pass to another request at each `await`.  A request is therefore a  *)
(* little process whose program counter names the database or file-system  *)
(* operation it performs next; one action = that operation together with   *)
(* the synchronous code that follows it up to the next await.              *)
(*                                                                         *)
(* The state is the imports table, the uploaded files, the member         *)
(* directory and the group directory.  The last two are also written by    *)
(* the routes of src/server/src/routes/members.ts and cellgroups.ts.       *)
(***************************************************************************)
EXTENDS Integers, Sequences, FiniteSets, TLC

VARIABLES
    imports,    \* table "imports": sequence of session records, id = position
    files,      \* the uploaded documents on disk, by path: [exists, content]
    members,    \* table "members": sequence of records, id = position
    cellGroups, \* table "cell_groups": sequence of records, id = position
    pc,         \* per handler: the operation its request performs next
    loc,        \* per handler: the request's local variables
    nreq,       \* number of requests received so far (uploads not counted)
    lastCommit  \* history: rows, skip set and row log of the commit that answered last

vars == <<imports, files, members, cellGroups, pc, loc, nreq, lastCommit>>

---------------------------------------------------------------------------
(* Bounds *)

\* number of requests the server handles at the same time
NumHandlers == 2

\* number of parse and commit requests received in one behaviour
MaxRequests == 4

\* the same, when requests run one at a time with the larger input sets
MaxSeqRequests == 2

\* the same, when the requests on one import interleave
MaxRaceRequests == 3

\* number of uploads when one row set is committed on two sessions
MaxImports == 2

\* longest row list a caller supplies (besides LongRows)
MaxRows == 2

\* longest skippedIndices list a caller supplies (besides LongSkips)
MaxSkipLen == 1

\* number of documents stored for an upload whose import was never created
MaxLostFiles == 1

\* number of requests and writes of other routes in one behaviour, when the
\* other routes write the directories
MaxOpenRequests == 4

\* largest member directory and group directory the other routes make
MaxMembers == 3
MaxGroups == 3

Procs == 1..NumHandlers

---------------------------------------------------------------------------
(* Values *)

\* SQL NULL / JS null in a member column
Null == "NULL"

\* JS null for `existingMember` and for an unresolved cellGroupId (ids start at 1)
NoId == 0

Min(S) == CHOOSE x \in S : \A y \in S : x <= y

\* `new Date(s)` for a YYYY-MM-DD string: midnight UTC of that day, written as
\* the timestamp the members table stores
NewDate(s) ==
    CASE s = "1990-05-15" -> "1990-05-15T00:00:00.000Z"
      [] s = "1985-12-20" -> "1985-12-20T00:00:00.000Z"
      [] s = "1990-05-14" -> "1990-05-14T00:00:00.000Z"
      [] s = "1990-06-05" -> "1990-06-05T00:00:00.000Z"
      [] s = "1990-06-04" -> "1990-06-04T00:00:00.000Z"
      [] s = "1990-05-06" -> "1990-05-06T00:00:00.000Z"
      [] s = "1990-05-05" -> "1990-05-05T00:00:00.000Z"

\* String.prototype.toLowerCase on the group names, headers and cell texts used
\* here (the other texts used are in lower case already)
ToLowerCase(s) ==
    CASE s = "Youth Group"    -> "youth group"
      [] s = "YOUTH GROUP"    -> "youth group"
      [] s = "Choir"          -> "choir"
      [] s = "Nobody"         -> "nobody"
      [] s = "First Name"     -> "first name"
      [] s = "Last Name"      -> "last name"
      [] s = "LAST NAME"      -> "last name"
      [] s = "Email"          -> "email"
      [] s = "Phone"          -> "phone"
      [] s = "Birthday"       -> "birthday"
      [] s = "Telephone"      -> "telephone"
      [] s = " MOBILE "       -> " mobile "
      [] s = "Birth Date"     -> "birth date"
      [] s = "DOB "           -> "dob "
      [] s = "Referred By"    -> "referred by"
      [] s = "Shoe Size"      -> "shoe size"
      [] s = "Marital Status" -> "marital status"
      [] s = "Status"         -> "status"
      [] s = " Married"       -> " married"
      [] s = "Active "        -> "active "
      [] s = "First Name,Last Name,Email" -> "first name,last name,email"
      [] s = "First Name,Last Name"       -> "first name,last name"
      [] s = "First Name|Last Name"       -> "first name|last name"
      [] s = "Names"                      -> "names"
      [] s = "John Doe"                   -> "john doe"
      [] s = "Mary Major"                 -> "mary major"
      [] s = "John,Doe,john@x.com"        -> "john,doe,john@x.com"
      [] s = ",Roe,"                      -> ",roe,"
      [] s = "John Doe john@x.com 555-123-4567" -> "john doe john@x.com 555-123-4567"
      [] OTHER                -> s

\* String.prototype.trim on the headers and cell texts used here (the other
\* texts used have no surrounding whitespace)
Trim(s) ==
    CASE s = " "            -> ""
      [] s = " Ann "        -> "Ann"
      [] s = "Lee "         -> "Lee"
      [] s = " mobile "     -> "mobile"
      [] s = "dob "         -> "dob"
      [] s = " married"     -> "married"
      [] s = "active "      -> "active"
      [] s = "1990-05-15 "  -> "1990-05-15"
      [] s = " 05/15/1990"  -> "05/15/1990"
      [] s = "  "           -> ""
      [] s = " Mary Major " -> "Mary Major"
      [] OTHER              -> s

\* String(value ?? '').trim() on a cell text
asTrimmedString(value) == Trim(value)

\* interface ImportedMember; an absent optional field is "" (both are falsy in JS)
Row(fn, ln, em, ph, bd, cg) ==
    [firstName |-> fn, lastName |-> ln, email |-> em, phone |-> ph,
     address |-> "", birthday |-> bd, maritalStatus |-> "", status |-> "",
     cellGroupName |-> cg, broughtBy |-> "", notes |-> ""]

ImportedMemberFields ==
    {"firstName", "lastName", "email", "phone", "address", "birthday",
     "maritalStatus", "status", "cellGroupName", "broughtBy", "notes"}

\* a record of table "members": the imported columns and, of the columns the
\* import does not write, journey_status
Member(fn, ln, em, ph, bd, cg) ==
    [firstName |-> fn, lastName |-> ln, email |-> em, phone |-> ph,
     address |-> Null, birthday |-> bd, maritalStatus |-> "undisclosed",
     status |-> "active", cellGroupId |-> cg, broughtBy |-> Null, notes |-> Null,
     journeyStatus |-> "new"]

MemberColumns ==
    {"firstName", "lastName", "email", "phone", "address", "birthday",
     "maritalStatus", "status", "cellGroupId", "broughtBy", "notes", "journeyStatus"}

\* migration.sql line 66: the default of a column the data of a create leaves out
columnDefaults == [journeyStatus |-> "new"]

\* what is left at the position of a deleted member: ids are not given again,
\* and no query finds the record
DeletedMember ==
    [firstName |-> "", lastName |-> "", email |-> Null, phone |-> Null,
     address |-> Null, birthday |-> Null, maritalStatus |-> "deleted",
     status |-> "deleted", cellGroupId |-> NoId, broughtBy |-> Null, notes |-> Null,
     journeyStatus |-> "deleted"]

\* a record of table "cell_groups" (the name), and what is left of a deleted one
CellGroup(name) == [name |-> name, deleted |-> FALSE]
DeletedGroup == [name |-> "", deleted |-> TRUE]

\* table "cell_groups" when the server starts
InitCellGroups == << CellGroup("Youth Group"), CellGroup("Choir") >>

---------------------------------------------------------------------------
(* Inputs *)

\* rows a caller may send to commit, and the rows files parse to
RowPool ==
    { Row("Ann", "Lee", "a@x.com", "555-1", "", ""),            \* email -> member 1, phone -> member 2
      Row("Ann", "Lee", "", "555-1", "", "YOUTH GROUP"),        \* phone only
      Row("Bob", "Ray", "", "", "1990-05-15", "Nobody"),        \* name + birthday only
      Row("Cy", "Orr", "c@x.com", "", "", ""),                  \* an email no member has at first
      Row("", "Lee", "a@x.com", "", "", ""),                    \* no first name
      Row("Dee", "", "", "", "", ""),                           \* no last name
      Row("Eve", "Fox", "", "", "", "") }                       \* no key at all

\* DuplicateInfo values a caller may leave attached to a supplied row
NoMatch == [isMatch |-> FALSE, matchedMemberId |-> NoId, matchType |-> "none",
            matchedMemberName |-> <<>>]

SeqsUpTo(S, n) == UNION {[1..k -> S] : k \in 0..n}

\* body.rows when the caller supplies it (possibly the empty list)
ProvidedRows == SeqsUpTo(RowPool, MaxRows)

\* three-row lists: one row to skip between two rows to write, and a row
\* without a name between two rows to write
LongRows ==
    { << Row("Cy", "Orr", "c@x.com", "", "", ""),
         Row("Eve", "Fox", "", "", "", ""),
         Row("Ann", "Lee", "a@x.com", "555-1", "", "") >>,
      << Row("Ann", "Lee", "", "555-1", "", "YOUTH GROUP"),
         Row("Dee", "", "", "", "", ""),
         Row("Cy", "Orr", "c@x.com", "", "", "") >> }

\* body.skippedIndices: a list of zero-based indices, possibly naming one past
\* the end of the rows
SkipLists == SeqsUpTo(0..MaxRows, MaxSkipLen)

\* longer skip lists: the same indices in two orders, an index named twice
LongSkips == { <<0, 2>>, <<2, 0>>, <<1, 1>> }

\* a sheet as XLSX.utils.sheet_to_json(sheet, { defval: '' }) gives it: the
\* headers in column order (the keys of every row) and the cell texts of the rows
Sheet(headers, data) == [headers |-> headers, data |-> data]

StdHeaders == <<"First Name", "Last Name", "Email", "Phone", "Birthday">>

\* the cells of one row of a sheet with the headers StdHeaders
RawRow(fn, ln, em, ph, bd) == <<fn, ln, em, ph, bd>>

FileContents ==
    { Sheet(StdHeaders, << RawRow(" Ann ", "Lee ", "a@x.com", "555-1", "") >>),
      Sheet(StdHeaders, << RawRow("Cy", "Orr", "c@x.com", " ", "1990-05-15"),
                           RawRow(" ", "Lee", "a@x.com", "", "") >>),
      Sheet(<< >>, << >>) }

\* the hours the server's time zone is ahead of UTC
ServerUtcOffsets == {0, 1}

\* the text pdfParse or Tesseract gives for a document, as its lines
\* (text.split('\n'))
Text(lines) == [text |-> lines]

TextContents ==
    { Text(<< "", "  ", "hello world", "12345" >>),
      Text(<< "" >>),
      Text(<< "John Doe john@x.com 555-123-4567", "random junk", " Mary Major " >>),
      Text(<< "First Name,Last Name,Email", "John,Doe,john@x.com", ",Roe," >>),
      Text(<< "First Name,Last Name" >>),
      Text(<< "Names", "John Doe" >>),
      Text(<< "a1", "b2", "c3", "d4", "e5", "First Name|Last Name", "John|Doe" >>) }

\* member directories the import may start from
InitDirectories ==
    { << >>,
      << Member("Ann", "Lee", "a@x.com", Null, Null, NoId),
         Member("Bob", "Ray", Null, "555-1", "1990-05-15T00:00:00.000Z", 1) >> }

allowedMimes ==
    {"application/vnd.openxmlformats-officedocument.spreadsheetml.sheet",
     "application/vnd.ms-excel", "text/csv", "application/pdf", "image/jpeg",
     "image/png"}
UploadMimes == {"text/csv", "text/plain"}
UploadExts == {"csv", "txt"}

---------------------------------------------------------------------------
(* The member directory (prisma.member) *)

\* the ids of the records that are in the table
LiveMembers(ms) == {k \in 1..Len(ms) : ms[k] # DeletedMember}

\* findFirst without orderBy: the database gives one of the matching records,
\* whichever comes first in its own order; null (NoId) when none matches
OneOf(hits) == IF hits = {} THEN {NoId} ELSE hits

\* a lookup by email that never finds a record
findFirstByEmailMiss(ms, email) == {NoId}

\* prisma.member.findFirst({ where: { email } }): the ids it may give
findFirstByEmail(ms, email) ==
    OneOf({k \in LiveMembers(ms) : ms[k].email = email})

\* prisma.member.findFirst({ where: { phone } })
findFirstByPhone(ms, phone) ==
    OneOf({k \in LiveMembers(ms) : ms[k].phone = phone})

\* prisma.member.findFirst({ where: { firstName, lastName, birthday: new Date(..) } })
findFirstByNameBirthday(ms, firstName, lastName, birthday) ==
    OneOf({k \in LiveMembers(ms) : /\ ms[k].firstName = firstName
                                   /\ ms[k].lastName = lastName
                                   /\ ms[k].birthday = NewDate(birthday)})

\* the record with the columns named in data set to the values in data
withData(record, data) ==
    [c \in MemberColumns |-> IF c \in DOMAIN data THEN data[c] ELSE record[c]]

\* an update that keeps the old value of a column the new data leaves empty
memberUpdateMerge(ms, id, data) ==
    [ms EXCEPT ![id] =
        withData(@, [data EXCEPT !.phone = IF data.phone = Null THEN ms[id].phone
                                           ELSE @,
                                 !.cellGroupId = IF data.cellGroupId = NoId
                                                 THEN ms[id].cellGroupId ELSE @])]

\* prisma.member.update({ where: { id }, data }): the columns named in data
\* are set, the others stay
memberUpdate(ms, id, data) == [ms EXCEPT ![id] = withData(@, data)]

\* prisma.member.create({ data }): the new record gets the next id, and the
\* default in every column data leaves out
memberCreate(ms, data) == Append(ms, withData(columnDefaults, data))

\* prisma.member.delete({ where: { id } })
memberDelete(ms, id) == [ms EXCEPT ![id] = DeletedMember]

\* the write is accepted by the database: the record to update is in the table
\* (else P2025) and the group referred to exists (members_cell_group_id_fkey)
writeAccepted(ms, groups, existingMember, data) ==
    /\ existingMember = NoId \/ existingMember \in LiveMembers(ms)
    /\ \/ data.cellGroupId = NoId
       \/ /\ data.cellGroupId \in 1..Len(groups)
          /\ ~groups[data.cellGroupId].deleted

---------------------------------------------------------------------------
(* Duplicate Matcher *)

MatchInfo(ms, id, type) ==
    [isMatch |-> TRUE, matchedMemberId |-> id, matchType |-> type,
     matchedMemberName |-> <<ms[id].firstName, ms[id].lastName>>]

\* lines 542-549, 558-565, 578-585: if (match) duplicateInfo = {...}
matchOr(ms, match, type, duplicateInfo) ==
    IF match # NoId THEN MatchInfo(ms, match, type) ELSE duplicateInfo

\* the same for each record the query may give
matchesOr(ms, matches, type, duplicateInfo) ==
    {matchOr(ms, match, type, duplicateInfo) : match \in matches}

\* a matcher that asks for the phone before the email
duplicateInfoPhoneFirst(row, ms) ==
    LET d1 == IF row.phone # ""
              THEN matchesOr(ms, findFirstByPhone(ms, row.phone), "phone", NoMatch)
              ELSE {NoMatch}
        d2 == UNION { IF ~d.isMatch /\ row.email # ""
                      THEN matchesOr(ms, findFirstByEmail(ms, row.email), "email", d)
                      ELSE {d} : d \in d1 }
    IN  UNION { IF ~d.isMatch /\ row.birthday # ""
                THEN matchesOr(ms, findFirstByNameBirthday(ms, row.firstName,
                                       row.lastName, row.birthday),
                               "name_birthday", d)
                ELSE {d} : d \in d2 }

\* lines 534-589, the body of checkDuplicates' loop for one row when the
\* directory is ms at each of its queries: the DuplicateInfos it may attach
duplicateInfoOf(row, ms) ==
    LET d1 == IF row.email # ""
              THEN matchesOr(ms, findFirstByEmail(ms, row.email), "email", NoMatch)
              ELSE {NoMatch}
        d2 == UNION { IF ~d.isMatch /\ row.phone # ""
                      THEN matchesOr(ms, findFirstByPhone(ms, row.phone), "phone", d)
                      ELSE {d} : d \in d1 }
    IN  UNION { IF ~d.isMatch /\ row.birthday # ""
                THEN matchesOr(ms, findFirstByNameBirthday(ms, row.firstName,
                                       row.lastName, row.birthday),
                               "name_birthday", d)
                ELSE {d} : d \in d2 }

\* { ...row, duplicateInfo }
WithDuplicate(row, info) ==
    [f \in ImportedMemberFields \cup {"duplicateInfo"} |->
        IF f = "duplicateInfo" THEN info ELSE row[f]]

\* checkDuplicates(rows) when the directory is ms throughout: the lists it may
\* return
checkDuplicates(rows, ms) ==
    LET infos == UNION {duplicateInfoOf(rows[k], ms) : k \in 1..Len(rows)}
    IN  { [k \in 1..Len(rows) |-> WithDuplicate(rows[k], f[k])] :
            f \in {g \in [1..Len(rows) -> infos] :
                      \A k \in 1..Len(rows) : g[k] \in duplicateInfoOf(rows[k], ms)} }

\* lines 536-572: which query, if any, the loop body awaits next for the row
\* stage 0: before the email query, 1: after it, 2: after the phone query,
\* 3: after the name and birthday query
nextCheck(row, duplicateInfo, stage) ==
    IF stage < 1 /\ row.email # "" THEN "d_email"
    ELSE IF stage < 2 /\ ~duplicateInfo.isMatch /\ row.phone # "" THEN "d_phone"
    ELSE IF stage < 3 /\ ~duplicateInfo.isMatch /\ row.birthday # "" THEN "d_name"
    ELSE "d_push"

---------------------------------------------------------------------------
(* Tabular Extractor *)

\* lines 193-227: the field columnMappings has for a key, Null for none
columnMappings(normalized) ==
    CASE normalized \in {"firstname", "first_name", "first name"} -> "firstName"
      [] normalized \in {"lastname", "last_name", "last name"} -> "lastName"
      [] normalized = "email" -> "email"
      [] normalized \in {"phone", "telephone", "mobile"} -> "phone"
      [] normalized = "address" -> "address"
      [] normalized \in {"birthday", "birth_date", "birthdate", "date of birth", "dob"}
            -> "birthday"
      [] normalized \in {"maritalstatus", "marital_status", "marital status"}
            -> "maritalStatus"
      [] normalized = "status" -> "status"
      [] normalized \in {"cellgroupname", "cell_group_name", "cell group name",
                         "cell group", "cellgroup"} -> "cellGroupName"
      [] normalized \in {"broughtby", "brought_by", "brought by", "referred by"}
            -> "broughtBy"
      [] normalized \in {"notes", "note", "comment", "comments"} -> "notes"
      [] OTHER -> Null

\* lines 229-232: columnMappings[name.toLowerCase().trim()] || null
normalizeColumnName(name) == columnMappings(Trim(ToLowerCase(name)))

\* lines 292-298
normalizeMaritalStatus(value) ==
    IF value = "" THEN "undisclosed"
    ELSE LET normalized == Trim(ToLowerCase(value))
         IN  IF normalized = "single" THEN "single"
             ELSE IF normalized = "married" THEN "married"
             ELSE "undisclosed"

\* lines 300-306 (none of the texts used has inner whitespace to replace)
normalizeMemberStatus(value) ==
    IF value = "" THEN "pending_approval"
    ELSE LET normalized == Trim(ToLowerCase(value))
         IN  IF normalized = "active" THEN "active"
             ELSE IF normalized = "inactive" THEN "inactive"
             ELSE "pending_approval"

\* lines 261-266: the index of the pattern a trimmed text matches, 0 for none:
\* 1 YYYY-MM-DD, 2 MM/DD/YYYY, 3 MM-DD-YYYY, 4 DD.MM.YYYY
datePatterns(trimmed) ==
    CASE trimmed \in {"1990-05-15", "1990-06-05"} -> 1
      [] trimmed \in {"05/15/1990", "06/05/1990"} -> 2
      [] trimmed \in {"05-15-1990", "06-05-1990"} -> 3
      [] trimmed \in {"15.05.1990", "05.06.1990"} -> 4
      [] OTHER -> 0

\* the three numbers of a text that is numbers between '/', '-' or '.', in the
\* order written; << >> for the other texts used
numbersOf(trimmed) ==
    CASE trimmed \in {"05/15/1990", "05-15-1990"} -> <<5, 15, 1990>>
      [] trimmed \in {"06/05/1990", "06-05-1990"} -> <<6, 5, 1990>>
      [] trimmed = "15.05.1990" -> <<15, 5, 1990>>
      [] trimmed = "05.06.1990" -> <<5, 6, 1990>>
      [] OTHER -> << >>

InvalidDate == [valid |-> FALSE, y |-> 0, m |-> 0, d |-> 0]

\* `new Date(trimmed)` for a text that is not in the ISO format: the engine reads
\* three numbers as month, day, year in the server's local time, and gives an
\* Invalid Date when the month is not one
newDateLocal(trimmed) ==
    LET n == numbersOf(trimmed) IN
    IF n = << >> THEN InvalidDate
    ELSE IF n[1] \notin 1..12 \/ n[2] \notin 1..31 THEN InvalidDate
    ELSE [valid |-> TRUE, y |-> n[3], m |-> n[1], d |-> n[2]]

daysInMonth(y, m) ==
    IF m \in {4, 6, 9, 11} THEN 30
    ELSE IF m # 2 THEN 31
    ELSE IF y % 4 = 0 /\ (y % 100 # 0 \/ y % 400 = 0) THEN 29 ELSE 28

\* the day before
dayBefore(date) ==
    IF date.d > 1 THEN [date EXCEPT !.d = @ - 1]
    ELSE IF date.m > 1
    THEN [date EXCEPT !.m = @ - 1, !.d = daysInMonth(date.y, date.m - 1)]
    ELSE [date EXCEPT !.y = @ - 1, !.m = 12, !.d = 31]

\* `${y}-${mm}-${dd}` for the dates that occur
isoText(date) ==
    CASE <<date.y, date.m, date.d>> = <<1990, 5, 15>> -> "1990-05-15"
      [] <<date.y, date.m, date.d>> = <<1990, 5, 14>> -> "1990-05-14"
      [] <<date.y, date.m, date.d>> = <<1990, 6, 5>>  -> "1990-06-05"
      [] <<date.y, date.m, date.d>> = <<1990, 6, 4>>  -> "1990-06-04"
      [] <<date.y, date.m, date.d>> = <<1990, 5, 6>>  -> "1990-05-06"
      [] <<date.y, date.m, date.d>> = <<1990, 5, 5>>  -> "1990-05-05"

\* date.toISOString().split('T')[0] of a local midnight: the UTC day, which is
\* the day before where the server is ahead of UTC
toISODate(date, utcOffset) ==
    IF utcOffset > 0 THEN isoText(dayBefore(date)) ELSE isoText(date)

\* lines 246-290, for a cell text ("" is also the absent result): a text in
\* the first pattern is returned trimmed; a text in one of the other patterns
\* and a text in no pattern both go through new Date(trimmed)
parseDate(value, utcOffset) ==
    IF value = "" THEN ""
    ELSE LET trimmed == Trim(value) IN
         IF datePatterns(trimmed) = 1 THEN trimmed
         ELSE IF newDateLocal(trimmed).valid
         THEN toISODate(newDateLocal(trimmed), utcOffset)
         ELSE ""

\* the largest element of a set of column numbers
Max(S) == CHOOSE x \in S : \A y \in S : y <= x

\* the ImportedMember built from the cells of one row (lines 334-368): the
\* columns are gone through in header order, so of two columns mapped to one
\* field the later one decides; setOptionalString leaves a field alone when the
\* trimmed text is empty
extractMember(headers, cells, utcOffset) ==
    LET cols(f) == {k \in 1..Len(headers) : normalizeColumnName(headers[k]) = f}
        filled(f) == {k \in cols(f) : asTrimmedString(cells[k]) # ""}
        required(f) == IF cols(f) = {} THEN "" ELSE asTrimmedString(cells[Max(cols(f))])
        optional(f) == IF filled(f) = {} THEN ""
                       ELSE asTrimmedString(cells[Max(filled(f))])
    IN  [firstName |-> required("firstName"),
         lastName |-> required("lastName"),
         email |-> optional("email"),
         phone |-> optional("phone"),
         address |-> optional("address"),
         birthday |-> IF cols("birthday") = {} THEN ""
                      ELSE parseDate(cells[Max(cols("birthday"))], utcOffset),
         maritalStatus |-> IF cols("maritalStatus") = {} THEN ""
                           ELSE normalizeMaritalStatus(cells[Max(cols("maritalStatus"))]),
         status |-> IF cols("status") = {} THEN ""
                    ELSE normalizeMemberStatus(cells[Max(cols("status"))]),
         cellGroupName |-> optional("cellGroupName"),
         broughtBy |-> optional("broughtBy"),
         notes |-> optional("notes")]

\* issues that leave out the last name
rowIssuesFirstName(member) ==
    IF member.firstName = "" THEN <<"Missing first name">> ELSE <<>>

\* the issues of one extracted row (lines 371-372)
rowIssues(member) ==
    (IF member.firstName = "" THEN <<"Missing first name">> ELSE <<>>)
    \o (IF member.lastName = "" THEN <<"Missing last name">> ELSE <<>>)

RECURSIVE extractErrors(_, _)
extractErrors(rows, i) ==
    IF i >= Len(rows) THEN <<>>
    ELSE (IF rowIssues(rows[i + 1]) # <<>>
          THEN << [rowIndex |-> i, issues |-> rowIssues(rows[i + 1])] >>
          ELSE <<>>)
         \o extractErrors(rows, i + 1)

\* lines 309-382: parseExcelOrCsv on the sheet's rows, on a server utcOffset
\* hours ahead of UTC
parseExcelOrCsv(rawData, utcOffset) ==
    LET rows == [k \in 1..Len(rawData.data) |->
                    extractMember(rawData.headers, rawData.data[k], utcOffset)]
    IN  [rows |-> rows, errors |-> extractErrors(rows, 0)]

---------------------------------------------------------------------------
(* Heuristic Extractor (lines 407-527) *)

\* line 412: text.split('\n').map(l => l.trim()).filter(l => l.length > 0)
trimmedLines(text) ==
    SelectSeq([k \in 1..Len(text) |-> Trim(text[k])], LAMBDA l : l # "")

\* line 425: line.includes('first') || line.includes('name') ||
\* line.includes('email'), for a lower-cased line
includesKeyword(line) ==
    line \in {"first name,last name,email", "first name,last name",
              "first name|last name", "names"}

\* line 416: separatorPatterns, in the order tried: 1 tab, 2 comma outside
\* quotes, 3 two or more blanks, 4 pipe
separatorPatterns == 1..4

\* String.prototype.split(sep) on the lines used here: a line without the
\* separator is one part
split(line, sep) ==
    CASE sep = 2 /\ line = "First Name,Last Name,Email"
            -> <<"First Name", "Last Name", "Email">>
      [] sep = 2 /\ line = "First Name,Last Name" -> <<"First Name", "Last Name">>
      [] sep = 2 /\ line = "John,Doe,john@x.com" -> <<"John", "Doe", "john@x.com">>
      [] sep = 2 /\ line = ",Roe," -> <<"", "Roe", "">>
      [] sep = 4 /\ line = "First Name|Last Name" -> <<"First Name", "Last Name">>
      [] sep = 4 /\ line = "John|Doe" -> <<"John", "Doe">>
      [] OTHER -> <<line>>

\* line 448: lines[i].split(sep).map(p => p.trim())
trimmedParts(line, sep) ==
    LET parts == split(line, sep) IN [k \in 1..Len(parts) |-> Trim(parts[k])]

\* line 427: the same with .filter(p => p)
headerParts(line, sep) == SelectSeq(trimmedParts(line, sep), LAMBDA part : part # "")

\* lines 423-437: the first of the first five lines that has a keyword and a
\* separator giving two parts or more, with the first such separator; line 0
\* when there is none
findHeader(lines) ==
    LET fits(i, sep) == /\ includesKeyword(ToLowerCase(lines[i]))
                        /\ Len(headerParts(lines[i], sep)) >= 2
        found == {i \in 1..Min({5, Len(lines)}) : \E sep \in separatorPatterns : fits(i, sep)}
    IN  IF found = {} THEN [line |-> 0, sep |-> 0, headerRow |-> << >>]
        ELSE LET i == Min(found)
                 sep == Min({x \in separatorPatterns : fits(i, x)})
             IN  [line |-> i, sep |-> sep, headerRow |-> headerParts(lines[i], sep)]

\* lines 447-496: the lines after the header, split and mapped like the cells
\* of a sheet (parts[idx] || '' for a line with fewer parts)
structuredRows(lines, header, utcOffset) ==
    [k \in 1..(Len(lines) - header.line) |->
        LET parts == trimmedParts(lines[header.line + k], header.sep)
            cells == [c \in 1..Len(header.headerRow) |->
                         IF c <= Len(parts) THEN parts[c] ELSE ""]
        IN  extractMember(header.headerRow, cells, utcOffset)]

\* line 502: line.match(/^([A-Z][a-z]+)\s+([A-Z][a-z]+)/): the two groups, or
\* << >> for no match
nameMatch(line) ==
    CASE line \in {"John Doe", "John Doe john@x.com 555-123-4567"} -> <<"John", "Doe">>
      [] line = "Mary Major" -> <<"Mary", "Major">>
      [] line = "First Name|Last Name" -> <<"First", "Name">>
      [] OTHER -> << >>

\* line 510: line.match(/[\w.-]+@[\w.-]+\.\w+/), "" for no match
emailMatch(line) ==
    IF line = "John Doe john@x.com 555-123-4567" THEN "john@x.com" ELSE ""

\* line 514: the phone pattern, "" for no match
phoneMatch(line) ==
    IF line = "John Doe john@x.com 555-123-4567" THEN "555-123-4567" ELSE ""

\* lines 499-519: one record per line that starts with two capitalized words
fallbackRows(lines) ==
    LET named == SelectSeq(lines, LAMBDA l : nameMatch(l) # << >>)
    IN  [k \in 1..Len(named) |->
            Row(nameMatch(named[k])[1], nameMatch(named[k])[2],
                emailMatch(named[k]), phoneMatch(named[k]), "", "")]

\* fallback errors that are never reported
fallbackErrorsNever(rows) == << >>

\* lines 521-523
fallbackErrors(rows) ==
    IF Len(rows) = 0
    THEN << [rowIndex |-> 0,
             issues |-> <<"Could not parse any member records from text">>] >>
    ELSE << >>

\* lines 407-527: parseTextToMembers on the lines of a text
parseTextToMembers(text, utcOffset) ==
    LET lines == trimmedLines(text)
        header == findHeader(lines)
    IN  IF header.line # 0
        THEN LET rows == structuredRows(lines, header, utcOffset)
             IN  [rows |-> rows, errors |-> extractErrors(rows, 0)]
        ELSE [rows |-> fallbackRows(lines), errors |-> fallbackErrors(fallbackRows(lines))]

---------------------------------------------------------------------------
(* Commit Engine: the synchronous parts *)

\* a status check that only turns away sessions not yet parsed
statusAllowsCommitLoose(status) == status \notin {"none", "pending"}

\* line 776: the status a session must have for commit to go on
statusAllowsCommit(status) == status = "parsed"

\* line 783: rawRows.map(({ duplicateInfo, ...rest }) => rest)
stripDuplicateInfo(rawRows) ==
    [k \in 1..Len(rawRows) |-> [f \in ImportedMemberFields |-> rawRows[k][f]]]

\* a skip set that holds the first listed index only
skippedSetFirstOnly(skippedIndices) ==
    IF skippedIndices = <<>> THEN {} ELSE {skippedIndices[1]}

\* line 790: new Set(skippedIndices || [])
skippedSetOf(skippedIndices) == {skippedIndices[k] : k \in 1..Len(skippedIndices)}

\* a validation that forgets the last name
missingFirstName(row) == row.firstName = ""

\* line 811: !row.firstName || !row.lastName
missingName(row) == row.firstName = "" \/ row.lastName = ""

\* the ids of the groups that are in the table
LiveGroups(groups) == {k \in 1..Len(groups) : ~groups[k].deleted}

\* lines 793-794: the maps, as sets of entries <<lower-cased name, id>>, that
\* new Map(cellGroups.map(..)) may be for the table: of several groups with one
\* lower-cased name the one findMany gives last stays in the map, and findMany
\* has no orderBy
cellGroupMaps(groups) ==
    LET keys == {ToLowerCase(groups[k].name) : k \in LiveGroups(groups)}
    IN  { {<<key, f[key]>> : key \in keys} :
             f \in {g \in [keys -> LiveGroups(groups)] :
                       \A key \in keys : ToLowerCase(groups[g[key]].name) = key} }

\* line 848: cellGroupMap.get(key) || null
cellGroupMapGet(cellGroupMap, key) ==
    IF \E e \in cellGroupMap : e[1] = key
    THEN (CHOOSE e \in cellGroupMap : e[1] = key)[2]
    ELSE NoId

\* a resolution that asks the map for the name as written
resolveCellGroupIdExact(cellGroupMap, row) ==
    IF row.cellGroupName # "" THEN cellGroupMapGet(cellGroupMap, row.cellGroupName)
    ELSE NoId

\* lines 846-849
resolveCellGroupId(cellGroupMap, row) ==
    IF row.cellGroupName # ""
    THEN cellGroupMapGet(cellGroupMap, ToLowerCase(row.cellGroupName))
    ELSE NoId

OrNull(v) == IF v # "" THEN v ELSE Null

\* lines 852-864
memberData(cellGroupMap, row) ==
    [firstName |-> row.firstName,
     lastName |-> row.lastName,
     email |-> OrNull(row.email),
     phone |-> OrNull(row.phone),
     address |-> OrNull(row.address),
     birthday |-> IF row.birthday # "" THEN NewDate(row.birthday) ELSE Null,
     maritalStatus |-> IF row.maritalStatus # "" THEN row.maritalStatus ELSE "undisclosed",
     status |-> IF row.status # "" THEN row.status ELSE "pending_approval",
     cellGroupId |-> resolveCellGroupId(cellGroupMap, row),
     broughtBy |-> OrNull(row.broughtBy),
     notes |-> OrNull(row.notes)]

\* `Row ${i + 1}: ${text}`
rowError(i, text) == [row |-> i + 1, text |-> text]

\* lines 803-806: a row the caller marked to skip
skipMarked(l) ==
    [l EXCEPT !.skipped = @ + 1, !.i = @ + 1,
              !.log = Append(@, [kind |-> "marked", id |-> NoId])]

\* a validation failure that records the error and forgets to count the row
skipNamelessUncounted(l) ==
    [l EXCEPT !.i = @ + 1,
              !.commitErrors = Append(@, rowError(l.i, "Missing first or last name")),
              !.log = Append(@, [kind |-> "nameless", id |-> NoId])]

\* lines 811-815: a row without first or last name
skipNameless(l) ==
    [l EXCEPT !.skipped = @ + 1, !.i = @ + 1,
              !.commitErrors = Append(@, rowError(l.i, "Missing first or last name")),
              !.log = Append(@, [kind |-> "nameless", id |-> NoId])]

\* a catch outside the loop: the error ends the processing of the rows
catchRowAbort(l) ==
    [l EXCEPT !.skipped = @ + 1, !.i = Len(l.rows),
              !.commitErrors = Append(@, rowError(l.i, "Error")),
              !.log = Append(@, [kind |-> "threw", id |-> NoId])]

\* a catch that records the error and does not count the row
catchRowUncounted(l) ==
    [l EXCEPT !.i = @ + 1,
              !.commitErrors = Append(@, rowError(l.i, "Error")),
              !.log = Append(@, [kind |-> "threw", id |-> NoId])]

\* lines 878-881: the catch of the per-row try
catchRow(l) ==
    [l EXCEPT !.skipped = @ + 1, !.i = @ + 1,
              !.commitErrors = Append(@, rowError(l.i, "Error")),
              !.log = Append(@, [kind |-> "threw", id |-> NoId])]

\* lines 866-877, the counters: the row was written (newId: the id a created
\* record got)
countWrite(l, newId) ==
    IF l.existingMember # NoId
    THEN [l EXCEPT !.updated = @ + 1, !.i = @ + 1,
                   !.log = Append(@, [kind |-> "updated", id |-> l.existingMember])]
    ELSE [l EXCEPT !.created = @ + 1, !.i = @ + 1,
                   !.log = Append(@, [kind |-> "created", id |-> newId])]

\* lines 801-819: the loop runs on, without awaiting anything, over marked and
\* nameless rows until a row needs the directory or the rows are used up
RECURSIVE runLoop(_)
runLoop(l) ==
    IF l.i >= Len(l.rows) THEN l
    ELSE IF l.i \in l.skippedSet THEN runLoop(skipMarked(l))
    ELSE IF missingName(l.rows[l.i + 1]) THEN runLoop(skipNameless(l))
    ELSE [l EXCEPT !.existingMember = NoId]

\* the row the loop is at
curRow(l) == l.rows[l.i + 1]

\* lookups that do not stop at the first hit
nextLookupAll(row, existingMember, stage) ==
    IF stage < 1 /\ row.email # "" THEN "c_email"
    ELSE IF stage < 2 /\ row.phone # "" THEN "c_phone"
    ELSE IF existingMember = NoId /\ row.birthday # "" THEN "c_name"
    ELSE "c_write"

\* lookups that ask for the email of every row, with or without one
nextLookupUnguarded(row, existingMember, stage) ==
    IF stage < 1 THEN "c_email"
    ELSE IF stage < 2 /\ existingMember = NoId /\ row.phone # "" THEN "c_phone"
    ELSE IF existingMember = NoId /\ row.birthday # "" THEN "c_name"
    ELSE "c_write"

\* lines 821-844: which lookup, if any, the row awaits next
\* stage 0: before the email lookup, 1: after it, 2: after the phone lookup
nextLookup(row, existingMember, stage) ==
    IF stage < 1 /\ row.email # "" THEN "c_email"
    ELSE IF stage < 2 /\ existingMember = NoId /\ row.phone # "" THEN "c_phone"
    ELSE IF existingMember = NoId /\ row.birthday # "" THEN "c_name"
    ELSE "c_write"

\* where the handler stands once the loop has run on
afterLoop(l) ==
    IF l.i >= Len(l.rows) THEN "c_status" ELSE nextLookup(curRow(l), NoId, 0)

---------------------------------------------------------------------------
(* State *)

\* column "errors" of an import (Json): the RowErrors of a parse, or the
\* object { message } the catch of a parse stores
RowErrors(list) == [list |-> list]
ErrorMessage(message) == [message |-> message]

\* what findUnique gives for an id that is not in the table
NoSession ==
    [exists |-> FALSE, status |-> "none", fileType |-> "", filePath |-> 0,
     rowCount |-> 0, parsedData |-> <<>>, errors |-> RowErrors(<<>>)]

NoResponse == [code |-> 0, error |-> ""]

\* the locals of a handler that is not running
Blank ==
    [kind |-> "none", id |-> 0, importRecord |-> NoSession,
     fileType |-> "", filePath |-> 0,
     checkDuplicatesFlag |-> FALSE, dataBuffer |-> [text |-> <<>>],
     result |-> [rows |-> <<>>, errors |-> <<>>],
     finalRows |-> <<>>, duplicateInfo |-> NoMatch,
     hasRows |-> FALSE, providedRows |-> <<>>,
     rows |-> <<>>, skippedIndices |-> <<>>, skippedSet |-> {}, cellGroupMap |-> {},
     i |-> 0,
     created |-> 0, updated |-> 0, skipped |-> 0, commitErrors |-> <<>>,
     existingMember |-> NoId,
     log |-> <<>>,          \* what became of each row so far (not in the code)
     response |-> NoResponse]

NoResult == [created |-> 0, updated |-> 0, skipped |-> 0, errors |-> <<>>]

NoCommit == [id |-> 0, rows |-> <<>>, skippedSet |-> {}, log |-> <<>>, result |-> NoResult]

Init ==
    /\ imports = <<>>
    /\ files = <<>>
    /\ members \in InitDirectories
    /\ cellGroups = InitCellGroups
    /\ pc = [p \in Procs |-> "idle"]
    /\ loc = [p \in Procs |-> Blank]
    /\ nreq = 0
    /\ lastCommit = NoCommit

\* prisma.import.findUnique({ where: { id } })
findUnique(id) == IF id \in 1..Len(imports) THEN imports[id] ELSE NoSession

\* the document stored for import id (importRecord.filePath)
fileOf(id) == files[imports[id].filePath]

\* res.status(code).json(..): the request is over; of the response the status
\* code and the error text are kept (a CommitResult is kept in lastCommit, the
\* rows and errors a parse returns are those it stored in the import)
Respond(p, kind, id, code, error) ==
    /\ pc' = [pc EXCEPT ![p] = "done"]
    /\ loc' = [loc EXCEPT ![p] = [Blank EXCEPT !.kind = kind, !.id = id,
                                               !.response = [code |-> code, error |-> error]]]

\* an awaited promise rejects where no try encloses it: the async handler ends
\* with an unhandled rejection and sends no response
Die(p, kind, id) ==
    /\ pc' = [pc EXCEPT ![p] = "dead"]
    /\ loc' = [loc EXCEPT ![p] = [Blank EXCEPT !.kind = kind, !.id = id]]

\* the handler goes on to its next operation with locals l
Goto(p, where, l) ==
    /\ pc' = [pc EXCEPT ![p] = where]
    /\ loc' = [loc EXCEPT ![p] = l]

\* the handler runs no request
Free(p) == pc[p] \in {"idle", "done", "dead"}

---------------------------------------------------------------------------
(* Middleware (src/unnamed/part_008, lines 11-43) *)

\* who sends a request: the bearer token (absent, not verifiable, or verified)
\* and the role in the payload of a verified token
Caller(token, role) == [token |-> token, role |-> role]
SuperAdmin == Caller("valid", "super_admin")
CellLeader == Caller("valid", "cell_leader")
Callers == {SuperAdmin, CellLeader, Caller("none", ""), Caller("invalid", "")}

Passed == [code |-> 0, error |-> ""]

\* lines 11-27: the response authenticateToken sends, or Passed when it calls next()
authenticateToken(caller) ==
    IF caller.token = "none" THEN [code |-> 401, error |-> "Access token required"]
    ELSE IF caller.token = "invalid"
    THEN [code |-> 403, error |-> "Invalid or expired token"]
    ELSE Passed

\* line 22: req.user is set by authenticateToken, for a verified token only
hasUser(caller) == caller.token = "valid"

\* a role check that lets every verified caller through
requireRoleAny(roles, caller) == Passed

\* lines 29-43: the response requireRole(...roles) sends, or Passed
requireRole(roles, caller) ==
    IF ~hasUser(caller)
    THEN [code |-> 401, error |-> "Authentication required"]
    ELSE IF caller.role \notin roles
    THEN [code |-> 403, error |-> "Insufficient permissions"]
    ELSE Passed

\* line 762: requireRole('super_admin')
commitRoles == {"super_admin"}

\* the first response a chain of middleware results sends
firstRejection(results) ==
    IF \A k \in 1..Len(results) : results[k] = Passed THEN Passed
    ELSE results[CHOOSE k \in 1..Len(results) :
                     /\ results[k] # Passed
                     /\ \A j \in 1..(k - 1) : results[j] = Passed]

---------------------------------------------------------------------------
(* Upload (lines 172-190, 657-683) *)

\* line 184: the multer fileFilter
fileFilter(mimetype) == mimetype \in allowedMimes

\* src/server/src/index.ts lines 61-72: the answer of the error handler of the
\* application, which gets the Error the fileFilter gives to its callback
errorHandler == [code |-> 500, error |-> "Something went wrong!"]

\* an upload request: the file part it carries, if any (its mimetype, the
\* extension of its name and its content)
NoFile == [present |-> FALSE, mimetype |-> "", ext |-> "", content |-> [text |-> <<>>]]
FilePart(mimetype, ext, content) ==
    [present |-> TRUE, mimetype |-> mimetype, ext |-> ext, content |-> content]

\* lines 657-666: POST /upload behind authenticateToken and upload.single('file');
\* multer stores an accepted file on disk before the handler runs, and the
\* handler goes on to await prisma.import.create
\* line 666: fileType = path.extname(originalname).toLowerCase().slice(1)
Upload(p, caller, file) ==
    /\ Free(p)
    /\ IF authenticateToken(caller) # Passed
       THEN /\ Respond(p, "upload", 0, authenticateToken(caller).code,
                       authenticateToken(caller).error)
            /\ UNCHANGED files
       ELSE IF file.present /\ ~fileFilter(file.mimetype)
       THEN /\ Respond(p, "upload", 0, errorHandler.code, errorHandler.error)
            /\ UNCHANGED files
       ELSE IF ~file.present
       THEN /\ Respond(p, "upload", 0, 400, "No file uploaded")
            /\ UNCHANGED files
       ELSE /\ files' = Append(files, [exists |-> TRUE, content |-> file.content])
            /\ Goto(p, "u_create",
                    [Blank EXCEPT !.kind = "upload", !.fileType = file.ext,
                                  !.filePath = Len(files) + 1])
    /\ UNCHANGED <<imports, members, cellGroups, nreq, lastCommit>>

\* lines 668-681: prisma.import.create settles and the import id is returned
UploadCreate(p) ==
    /\ pc[p] = "u_create"
    /\ imports' = Append(imports,
                         [exists |-> TRUE, status |-> "pending",
                          fileType |-> loc[p].fileType, filePath |-> loc[p].filePath,
                          rowCount |-> 0, parsedData |-> <<>>,
                          errors |-> RowErrors(<<>>)])
    /\ Respond(p, "upload", Len(imports) + 1, 200, "")
    /\ UNCHANGED <<files, members, cellGroups, nreq, lastCommit>>

\* line 668: prisma.import.create rejects; no try encloses it, the stored file
\* stays without an import
UploadCreateRejects(p) ==
    /\ pc[p] = "u_create"
    /\ Die(p, "upload", 0)
    /\ UNCHANGED <<imports, files, members, cellGroups, nreq, lastCommit>>

---------------------------------------------------------------------------
(* Parse (lines 686-756) *)

\* lines 706-719: the file types the switch has a case for
tabularTypes == {"xlsx", "xls", "csv"}
imageTypes == {"jpg", "jpeg", "png"}
dispatchTypes == tabularTypes \cup {"pdf"} \cup imageTypes

\* lines 706-719: the extractor the switch calls for a file type that has a
\* case, on the sheet or on the text read from the document
extract(fileType, content, utcOffset) ==
    IF fileType \in tabularTypes
    THEN parseExcelOrCsv(content, utcOffset)
    ELSE parseTextToMembers(content.text, utcOffset)

\* lines 694-697: prisma.import.findUnique and the not-found answer
ParseFind(p, id, checkDuplicatesFlag) ==
    /\ Free(p)
    /\ nreq' = nreq + 1
    /\ IF ~findUnique(id).exists
       THEN Respond(p, "parse", id, 404, "Import not found")
       ELSE Goto(p, "p_extract",
                 [Blank EXCEPT !.kind = "parse", !.id = id,
                               !.importRecord = findUnique(id),
                               !.checkDuplicatesFlag = checkDuplicatesFlag])
    /\ UNCHANGED <<imports, files, members, cellGroups, lastCommit>>

\* lines 694, 771: prisma.import.findUnique rejects; no try encloses it
FindRejects(p, kind, id) ==
    /\ Free(p)
    /\ nreq' = nreq + 1
    /\ Die(p, kind, id)
    /\ UNCHANGED <<imports, files, members, cellGroups, lastCommit>>

\* the row checkDuplicates is at: the one after those it has pushed
checkRow(l) == l.result.rows[Len(l.finalRows) + 1]

\* line 588: result.push({ ...row, duplicateInfo })
pushChecked(l, duplicateInfo) ==
    [l EXCEPT !.finalRows = Append(@, WithDuplicate(checkRow(l), duplicateInfo))]

\* lines 533-591: checkDuplicates runs on, without awaiting anything, over the
\* rows it has no query to send for, until a row needs the directory or the
\* rows are used up
RECURSIVE runChecks(_)
runChecks(l) ==
    IF Len(l.finalRows) >= Len(l.result.rows) THEN l
    ELSE IF nextCheck(checkRow(l), NoMatch, 0) = "d_push"
    THEN runChecks(pushChecked(l, NoMatch))
    ELSE [l EXCEPT !.duplicateInfo = NoMatch]

\* where the handler stands once checkDuplicates has run on
afterChecks(l) ==
    IF Len(l.finalRows) >= Len(l.result.rows) THEN "p_update"
    ELSE nextCheck(checkRow(l), NoMatch, 0)

\* lines 724-731: the extractor has returned result; checkDuplicates starts when
\* it was asked for, else the rows are stored as they are
Extracted(p, result) ==
    IF loc[p].checkDuplicatesFlag
    THEN LET l == runChecks([loc[p] EXCEPT !.result = result, !.finalRows = <<>>])
         IN  Goto(p, afterChecks(l), l)
    ELSE Goto(p, "p_update", [loc[p] EXCEPT !.result = result,
                                            !.finalRows = result.rows])

\* a parse that marks the import failed when its file is gone
ParseExtractMarksFailed(p) ==
    /\ pc[p] = "p_extract"
    /\ LET id == loc[p].id
           fileType == loc[p].importRecord.fileType
           file == files[loc[p].importRecord.filePath]
       IN  IF ~file.exists
           THEN /\ imports' = [imports EXCEPT ![id] = [@ EXCEPT !.status = "failed"]]
                /\ Respond(p, "parse", id, 404, "File not found on server")
           ELSE /\ UNCHANGED imports
                /\ IF fileType \in tabularTypes
                   THEN \E utcOffset \in ServerUtcOffsets :
                           Extracted(p, extract(fileType, file.content, utcOffset))
                   ELSE IF fileType = "pdf"
                   THEN Goto(p, "p_pdf", [loc[p] EXCEPT !.dataBuffer = file.content])
                   ELSE IF fileType \in imageTypes
                   THEN Goto(p, "p_ocr", loc[p])
                   ELSE Respond(p, "parse", id, 400, "Unsupported file type")
    /\ UNCHANGED <<files, members, cellGroups, nreq, lastCommit>>

\* lines 699-721: fs.existsSync and the dispatch on the file type. A sheet is
\* read and extracted at once (parseExcelOrCsv awaits nothing); parsePdf reads
\* the document at once (fs.readFileSync, line 388) and awaits pdfParse on what
\* it read; parseImage awaits Tesseract.recognize, which reads the document
\* while the handler waits
ParseExtract(p) ==
    /\ pc[p] = "p_extract"
    /\ LET id == loc[p].id
           fileType == loc[p].importRecord.fileType
           file == files[loc[p].importRecord.filePath]
       IN  IF ~file.exists
           THEN Respond(p, "parse", id, 404, "File not found on server")
           ELSE IF fileType \in tabularTypes
           THEN \E utcOffset \in ServerUtcOffsets :
                   Extracted(p, extract(fileType, file.content, utcOffset))
           ELSE IF fileType = "pdf"
           THEN Goto(p, "p_pdf", [loc[p] EXCEPT !.dataBuffer = file.content])
           ELSE IF fileType \in imageTypes
           THEN Goto(p, "p_ocr", loc[p])
           ELSE Respond(p, "parse", id, 400, "Unsupported file type")
    /\ UNCHANGED <<imports, files, members, cellGroups, nreq, lastCommit>>

\* lines 389-392: pdfParse settles with the text of what was read
ParsePdf(p) ==
    /\ pc[p] = "p_pdf"
    /\ \E utcOffset \in ServerUtcOffsets :
          Extracted(p, extract("pdf", loc[p].dataBuffer, utcOffset))
    /\ UNCHANGED <<imports, files, members, cellGroups, nreq, lastCommit>>

\* lines 397-405: Tesseract.recognize reads the document as it is now and
\* settles with its text; it rejects when the document is gone
ParseOcr(p) ==
    /\ pc[p] = "p_ocr"
    /\ LET file == files[loc[p].importRecord.filePath] IN
       IF file.exists
       THEN \E utcOffset \in ServerUtcOffsets :
               Extracted(p, extract(loc[p].importRecord.fileType, file.content,
                                    utcOffset))
       ELSE Goto(p, "p_fail", loc[p])
    /\ UNCHANGED <<imports, files, members, cellGroups, nreq, lastCommit>>

\* lines 536-588: a query of checkDuplicates settles with one of matches; the
\* loop body goes on to its next query, or pushes the row and runs on
Checked(p, stage, type, matches) ==
    \E match \in matches :
       LET duplicateInfo == matchOr(members, match, type, loc[p].duplicateInfo)
           next == nextCheck(checkRow(loc[p]), duplicateInfo, stage)
       IN  IF next = "d_push"
           THEN LET l == runChecks(pushChecked(loc[p], duplicateInfo))
                IN  Goto(p, afterChecks(l), l)
           ELSE Goto(p, next, [loc[p] EXCEPT !.duplicateInfo = duplicateInfo])

\* lines 537-550
CheckEmail(p) ==
    /\ pc[p] = "d_email"
    /\ Checked(p, 1, "email", findFirstByEmail(members, checkRow(loc[p]).email))
    /\ UNCHANGED <<imports, files, members, cellGroups, nreq, lastCommit>>

\* lines 553-566
CheckPhone(p) ==
    /\ pc[p] = "d_phone"
    /\ Checked(p, 2, "phone", findFirstByPhone(members, checkRow(loc[p]).phone))
    /\ UNCHANGED <<imports, files, members, cellGroups, nreq, lastCommit>>

\* lines 569-586
CheckName(p) ==
    /\ pc[p] = "d_name"
    /\ Checked(p, 3, "name_birthday",
               findFirstByNameBirthday(members, checkRow(loc[p]).firstName,
                                       checkRow(loc[p]).lastName,
                                       checkRow(loc[p]).birthday))
    /\ UNCHANGED <<imports, files, members, cellGroups, nreq, lastCommit>>

\* the operations of a parse inside its try (lines 705-745)
CheckPcs == {"d_email", "d_phone", "d_name"}
TryPcs == {"p_extract", "p_pdf", "p_ocr", "p_update"} \cup CheckPcs

\* lines 705-748: an operation inside the try throws or rejects (reading or
\* extracting the document, a query of checkDuplicates, the update that stores
\* the rows): the catch is entered
ParseThrow(p) ==
    /\ pc[p] \in TryPcs
    /\ pc[p] = "p_extract"
          => /\ files[loc[p].importRecord.filePath].exists
             /\ loc[p].importRecord.fileType \in dispatchTypes
    /\ Goto(p, "p_fail", loc[p])
    /\ UNCHANGED <<imports, files, members, cellGroups, nreq, lastCommit>>

\* lines 731-745: the parsed rows are stored and returned
ParseUpdate(p) ==
    /\ pc[p] = "p_update"
    /\ imports' = [imports EXCEPT ![loc[p].id] =
                      [@ EXCEPT !.status = "parsed",
                                !.rowCount = Len(loc[p].result.rows),
                                !.parsedData = loc[p].finalRows,
                                !.errors = RowErrors(loc[p].result.errors)]]
    /\ Respond(p, "parse", loc[p].id, 200, "")
    /\ UNCHANGED <<files, members, cellGroups, nreq, lastCommit>>

\* lines 749-753: the catch of the parse boundary; String(error) is the text
\* "Error"
ParseFail(p) ==
    /\ pc[p] = "p_fail"
    /\ imports' = [imports EXCEPT ![loc[p].id] =
                      [@ EXCEPT !.status = "failed",
                                !.errors = ErrorMessage("Error")]]
    /\ Respond(p, "parse", loc[p].id, 500, "Failed to parse file")
    /\ UNCHANGED <<files, members, cellGroups, nreq, lastCommit>>

\* line 749: the update in the catch rejects; no try encloses it
ParseFailRejects(p) ==
    /\ pc[p] = "p_fail"
    /\ Die(p, "parse", loc[p].id)
    /\ UNCHANGED <<imports, files, members, cellGroups, nreq, lastCommit>>

---------------------------------------------------------------------------
(* Commit (lines 759-904) *)

\* lines 771-790: prisma.import.findUnique, the status check and the row list
\* the request body: rows (hasRows = FALSE when omitted) and skippedIndices
Bodies(rowLists, skipLists) ==
    [hasRows : {TRUE}, rows : rowLists, skippedIndices : skipLists]
    \cup [hasRows : {FALSE}, rows : {<<>>}, skippedIndices : skipLists]

\* a commit that always takes the stored rows
CommitRowsStored(p, id, importRecord, body) ==
    LET rows == stripDuplicateInfo(importRecord.parsedData)
    IN  IF Len(rows) = 0
        THEN Respond(p, "commit", id, 400, "No data to import")
        ELSE Goto(p, "c_groups",
                  [Blank EXCEPT !.kind = "commit", !.id = id,
                                !.importRecord = importRecord,
                                !.hasRows = body.hasRows,
                                !.providedRows = body.rows,
                                !.rows = rows,
                                !.skippedIndices = body.skippedIndices,
                                !.skippedSet = skippedSetOf(body.skippedIndices)])

\* a commit that also passes over the rows annotated as matches
CommitRowsSkipsMatches(p, id, importRecord, body) ==
    LET rawRows == IF body.hasRows THEN body.rows ELSE importRecord.parsedData
        rows == stripDuplicateInfo(rawRows)
        matches == {k - 1 : k \in {j \in 1..Len(rawRows) :
                                      /\ "duplicateInfo" \in DOMAIN rawRows[j]
                                      /\ rawRows[j].duplicateInfo.isMatch}}
    IN  IF Len(rows) = 0
        THEN Respond(p, "commit", id, 400, "No data to import")
        ELSE Goto(p, "c_groups",
                  [Blank EXCEPT !.kind = "commit", !.id = id,
                                !.importRecord = importRecord,
                                !.hasRows = body.hasRows,
                                !.providedRows = body.rows,
                                !.rows = rows,
                                !.skippedIndices = body.skippedIndices,
                                !.skippedSet = skippedSetOf(body.skippedIndices)
                                                  \cup matches])

\* lines 780-790: the rows to process and the skip set
CommitRows(p, id, importRecord, body) ==
    LET rawRows == IF body.hasRows THEN body.rows ELSE importRecord.parsedData
        rows == stripDuplicateInfo(rawRows)
    IN  IF Len(rows) = 0
        THEN Respond(p, "commit", id, 400, "No data to import")
        ELSE Goto(p, "c_groups",
                  [Blank EXCEPT !.kind = "commit", !.id = id,
                                !.importRecord = importRecord,
                                !.hasRows = body.hasRows,
                                !.providedRows = body.rows,
                                !.rows = rows,
                                !.skippedIndices = body.skippedIndices,
                                !.skippedSet = skippedSetOf(body.skippedIndices)])

\* lines 771-790; the body is one of `bodies` (it is not looked at before the
\* status check has passed)
CommitFind(p, id, bodies) ==
    /\ Free(p)
    /\ nreq' = nreq + 1
    /\ LET importRecord == findUnique(id) IN
       IF ~importRecord.exists
       THEN Respond(p, "commit", id, 404, "Import not found")
       ELSE IF ~statusAllowsCommit(importRecord.status)
       THEN Respond(p, "commit", id, 400, "Import must be parsed before committing")
       ELSE \E body \in bodies : CommitRows(p, id, importRecord, body)
    /\ UNCHANGED <<imports, files, members, cellGroups, lastCommit>>

\* lines 793-815: prisma.cellGroup.findMany settles, the map is built, then
\* the loop starts
CommitGroups(p) ==
    /\ pc[p] = "c_groups"
    /\ \E cellGroupMap \in cellGroupMaps(cellGroups) :
          LET l == runLoop([loc[p] EXCEPT !.cellGroupMap = cellGroupMap])
          IN  Goto(p, afterLoop(l), l)
    /\ UNCHANGED <<imports, files, members, cellGroups, nreq, lastCommit>>

\* line 793: prisma.cellGroup.findMany rejects; no try encloses it
CommitGroupsRejects(p) ==
    /\ pc[p] = "c_groups"
    /\ Die(p, "commit", loc[p].id)
    /\ UNCHANGED <<imports, files, members, cellGroups, nreq, lastCommit>>

\* an email lookup after which the phone is asked for even when it found a member
LookupEmailGoesOn(p) ==
    /\ pc[p] = "c_email"
    /\ LET row == curRow(loc[p]) IN
       \E found \in findFirstByEmail(members, row.email) :
          Goto(p, nextLookup(row, NoId, 1), [loc[p] EXCEPT !.existingMember = found])
    /\ UNCHANGED <<imports, files, members, cellGroups, nreq, lastCommit>>

\* lines 821-826
LookupEmail(p) ==
    /\ pc[p] = "c_email"
    /\ LET row == curRow(loc[p]) IN
       \E found \in findFirstByEmail(members, row.email) :
          Goto(p, nextLookup(row, found, 1), [loc[p] EXCEPT !.existingMember = found])
    /\ UNCHANGED <<imports, files, members, cellGroups, nreq, lastCommit>>

\* lines 828-833
LookupPhone(p) ==
    /\ pc[p] = "c_phone"
    /\ LET row == curRow(loc[p]) IN
       \E found \in findFirstByPhone(members, row.phone) :
          Goto(p, nextLookup(row, found, 2), [loc[p] EXCEPT !.existingMember = found])
    /\ UNCHANGED <<imports, files, members, cellGroups, nreq, lastCommit>>

\* lines 835-844
LookupName(p) ==
    /\ pc[p] = "c_name"
    /\ LET row == curRow(loc[p]) IN
       \E found \in findFirstByNameBirthday(members, row.firstName, row.lastName,
                                            row.birthday) :
          Goto(p, "c_write", [loc[p] EXCEPT !.existingMember = found])
    /\ UNCHANGED <<imports, files, members, cellGroups, nreq, lastCommit>>

\* a write that creates a record also for a row that matched one
writeMemberAlwaysCreate(ms, existingMember, data) == memberCreate(ms, data)

\* lines 866-877: prisma.member.update or prisma.member.create
writeMember(ms, existingMember, data) ==
    IF existingMember # NoId
    THEN memberUpdate(ms, existingMember, data)
    ELSE memberCreate(ms, data)

\* lines 846-877: the update or the create settles, then the loop runs on
WriteRow(p) ==
    /\ pc[p] = "c_write"
    /\ LET data == memberData(loc[p].cellGroupMap, curRow(loc[p])) IN
       /\ writeAccepted(members, cellGroups, loc[p].existingMember, data)
       /\ members' = writeMember(members, loc[p].existingMember, data)
    /\ LET l == runLoop(countWrite(loc[p], Len(members) + 1)) IN Goto(p, afterLoop(l), l)
    /\ UNCHANGED <<imports, files, cellGroups, nreq, lastCommit>>

\* lines 817-881: a lookup or the write rejects (the database fails, the record
\* to update or the group referred to is gone); the row's catch, the loop runs on
RowThrow(p) ==
    /\ pc[p] \in {"c_email", "c_phone", "c_name", "c_write"}
    /\ LET l == runLoop(catchRow(loc[p])) IN Goto(p, afterLoop(l), l)
    /\ UNCHANGED <<imports, files, members, cellGroups, nreq, lastCommit>>

\* a status update that also stores the rows the commit processed
CommitStatusStoresRows(p) ==
    /\ pc[p] = "c_status"
    /\ imports' = [imports EXCEPT ![loc[p].id] =
                      [@ EXCEPT !.status = "committed",
                                !.rowCount = Len(loc[p].rows),
                                !.parsedData = loc[p].rows]]
    /\ Goto(p, "c_unlink", loc[p])
    /\ UNCHANGED <<files, members, cellGroups, nreq, lastCommit>>

\* lines 885-888
CommitStatus(p) ==
    /\ pc[p] = "c_status"
    /\ imports' = [imports EXCEPT ![loc[p].id] = [@ EXCEPT !.status = "committed"]]
    /\ Goto(p, "c_unlink", loc[p])
    /\ UNCHANGED <<files, members, cellGroups, nreq, lastCommit>>

\* line 885: the status update rejects; no try encloses it: the rows written
\* stay, the import stays parsed, the file stays
CommitStatusRejects(p) ==
    /\ pc[p] = "c_status"
    /\ Die(p, "commit", loc[p].id)
    /\ UNCHANGED <<imports, files, members, cellGroups, nreq, lastCommit>>

\* a cleanup whose failure is answered as an error
CommitUnlinkEscalates(p, unlinked) ==
    /\ pc[p] = "c_unlink"
    /\ files' = IF unlinked
                THEN [files EXCEPT ![loc[p].importRecord.filePath] =
                         [@ EXCEPT !.exists = FALSE]]
                ELSE files
    /\ IF unlinked
       THEN /\ Respond(p, "commit", loc[p].id, 200, "")
            /\ lastCommit' = [id |-> loc[p].id, rows |-> loc[p].rows,
                              skippedSet |-> loc[p].skippedSet, log |-> loc[p].log,
                              result |-> [created |-> loc[p].created,
                                          updated |-> loc[p].updated,
                                          skipped |-> loc[p].skipped,
                                          errors |-> loc[p].commitErrors]]
       ELSE /\ Respond(p, "commit", loc[p].id, 500, "Failed to delete file")
            /\ UNCHANGED lastCommit
    /\ UNCHANGED <<imports, members, cellGroups, nreq>>

\* lines 891-902: fs.unlinkSync (its failure is ignored) and the CommitResult
CommitUnlink(p, unlinked) ==
    /\ pc[p] = "c_unlink"
    /\ files' = IF unlinked
                THEN [files EXCEPT ![loc[p].importRecord.filePath] =
                         [@ EXCEPT !.exists = FALSE]]
                ELSE files
    /\ Respond(p, "commit", loc[p].id, 200, "")
    /\ lastCommit' = [id |-> loc[p].id, rows |-> loc[p].rows,
                      skippedSet |-> loc[p].skippedSet, log |-> loc[p].log,
                      result |-> [created |-> loc[p].created, updated |-> loc[p].updated,
                                  skipped |-> loc[p].skipped,
                                  errors |-> loc[p].commitErrors]]
    /\ UNCHANGED <<imports, members, cellGroups, nreq>>

---------------------------------------------------------------------------
(* The routes of members.ts, cellgroups.ts, the approval routes and the      *)
(* follow-up and attendance routes, which write the two directories while   *)
(* an import runs: each action is one statement of theirs reaching the      *)
(* database (counted in nreq like a request).  The tables these routes keep *)
(* beside the two directories (pending_approvals, follow_ups, attendance,   *)
(* notifications) are not part of the state: whatever they hold, the write  *)
(* to members is one of the writes below.                                   *)

\* routes/members.ts lines 89-90: the status of a member a super_admin posts,
\* and of one another caller posts
initialStatuses == {"active", "pending_approval"}

\* what the callers of the other routes send
PostedMembers ==
    { [firstName |-> "Cy", lastName |-> "Orr", email |-> "c@x.com", phone |-> Null,
       address |-> Null, birthday |-> Null, maritalStatus |-> "undisclosed",
       broughtBy |-> Null, cellGroupId |-> NoId, status |-> initialStatus,
       notes |-> Null] : initialStatus \in initialStatuses }
PutData ==
    { [phone |-> "555-1"], [email |-> Null, cellGroupId |-> 2], [status |-> "inactive"] }
GroupNames == {"nobody", "Choir"}

\* routes/members.ts line 204 (migration.sql line 23): the values of
\* journey_status
validStatuses ==
    {"new", "contacted", "engaged", "foundation", "active_member", "potential_leader"}

\* src/unnamed/part_009 lines 81-84 and part_010 lines 165-167: updateData of an
\* approval: the status, and the group when the body names one (part_010 also
\* takes a group of null)
ApproveData ==
    { [status |-> "active"], [status |-> "active", cellGroupId |-> 2],
      [status |-> "active", cellGroupId |-> NoId] }

\* routes/members.ts lines 92-107: POST /api/members, prisma.member.create
MemberPost(data) ==
    /\ nreq < MaxOpenRequests
    /\ Len(members) < MaxMembers
    /\ members' = memberCreate(members, data)
    /\ nreq' = nreq + 1
    /\ UNCHANGED <<imports, files, cellGroups, pc, loc, lastCommit>>

\* routes/members.ts lines 170-177: PUT /api/members/:id, prisma.member.update
\* with the columns the body names
MemberPut(id, updateData) ==
    /\ nreq < MaxOpenRequests
    /\ id \in LiveMembers(members)
    /\ writeAccepted(members, cellGroups, id,
                     [cellGroupId |-> withData(members[id], updateData).cellGroupId])
    /\ members' = memberUpdate(members, id, updateData)
    /\ nreq' = nreq + 1
    /\ UNCHANGED <<imports, files, cellGroups, pc, loc, lastCommit>>

\* routes/members.ts line 195: DELETE /api/members/:id, prisma.member.delete
MemberDelete(id) ==
    /\ nreq < MaxOpenRequests
    /\ id \in LiveMembers(members)
    /\ members' = memberDelete(members, id)
    /\ nreq' = nreq + 1
    /\ UNCHANGED <<imports, files, cellGroups, pc, loc, lastCommit>>

\* routes/members.ts lines 209-212 (PATCH /:id/journey, any of validStatuses),
\* routes/followups.ts line 162 and src/unnamed/part_011 line 113 ('contacted'
\* after a follow-up), part_011 lines 325 and 557 ('engaged' after the third
\* attendance): prisma.member.update({ data: { journeyStatus } })
MemberJourney(id, journeyStatus) ==
    /\ nreq < MaxOpenRequests
    /\ id \in LiveMembers(members)
    /\ members' = memberUpdate(members, id, [journeyStatus |-> journeyStatus])
    /\ nreq' = nreq + 1
    /\ UNCHANGED <<imports, files, cellGroups, pc, loc, lastCommit>>

\* src/unnamed/part_009 lines 81-89 (part_010 lines 165-173): POST
\* /api/approvals/:id/approve, prisma.member.update of the member of a pending
\* approval
MemberApprove(id, updateData) ==
    /\ nreq < MaxOpenRequests
    /\ id \in LiveMembers(members)
    /\ writeAccepted(members, cellGroups, id,
                     [cellGroupId |-> withData(members[id], updateData).cellGroupId])
    /\ members' = memberUpdate(members, id, updateData)
    /\ nreq' = nreq + 1
    /\ UNCHANGED <<imports, files, cellGroups, pc, loc, lastCommit>>

\* src/unnamed/part_009 lines 133-136 (part_010 lines 214-218): POST
\* /api/approvals/:id/reject, prisma.member.update({ data: { status: 'inactive' } })
MemberReject(id) ==
    /\ nreq < MaxOpenRequests
    /\ id \in LiveMembers(members)
    /\ members' = memberUpdate(members, id, [status |-> "inactive"])
    /\ nreq' = nreq + 1
    /\ UNCHANGED <<imports, files, cellGroups, pc, loc, lastCommit>>

\* routes/cellgroups.ts lines 98-108: POST /api/cellgroups, prisma.cellGroup.create
GroupPost(name) ==
    /\ nreq < MaxOpenRequests
    /\ Len(cellGroups) < MaxGroups
    /\ cellGroups' = Append(cellGroups, CellGroup(name))
    /\ nreq' = nreq + 1
    /\ UNCHANGED <<imports, files, members, pc, loc, lastCommit>>

\* routes/cellgroups.ts lines 137-144: PUT /api/cellgroups/:id,
\* prisma.cellGroup.update({ data: { name } })
GroupPut(id, name) ==
    /\ nreq < MaxOpenRequests
    /\ id \in LiveGroups(cellGroups)
    /\ cellGroups' = [cellGroups EXCEPT ![id] = CellGroup(name)]
    /\ nreq' = nreq + 1
    /\ UNCHANGED <<imports, files, members, pc, loc, lastCommit>>

\* prisma.member.updateMany({ where, data: { cellGroupId } }) on the records in ids
setGroup(ms, ids, cellGroupId) ==
    [k \in 1..Len(ms) |-> IF k \in ids THEN [ms[k] EXCEPT !.cellGroupId = cellGroupId]
                          ELSE ms[k]]

\* the records of the group
MembersOf(ms, id) == {k \in LiveMembers(ms) : ms[k].cellGroupId = id}

\* routes/cellgroups.ts lines 159-162: DELETE /api/cellgroups/:id, first
\* statement: the members of the group are taken out of it
GroupDetach(id) ==
    /\ nreq < MaxOpenRequests
    /\ id \in LiveGroups(cellGroups)
    /\ members' = setGroup(members, MembersOf(members, id), NoId)
    /\ nreq' = nreq + 1
    /\ UNCHANGED <<imports, files, cellGroups, pc, loc, lastCommit>>

\* routes/cellgroups.ts line 164: prisma.cellGroup.delete; the database sets
\* cell_group_id to null in the records that still refer to the group
\* (migration.sql line 135, ON DELETE SET NULL)
GroupDelete(id) ==
    /\ nreq < MaxOpenRequests
    /\ id \in LiveGroups(cellGroups)
    /\ cellGroups' = [cellGroups EXCEPT ![id] = DeletedGroup]
    /\ members' = setGroup(members, MembersOf(members, id), NoId)
    /\ nreq' = nreq + 1
    /\ UNCHANGED <<imports, files, pc, loc, lastCommit>>

\* routes/cellgroups.ts lines 183-186: POST /api/cellgroups/:id/members,
\* prisma.member.updateMany({ where: { id: { in: member_ids } }, data: { cellGroupId } })
GroupAssign(id, memberIds) ==
    /\ nreq < MaxOpenRequests
    /\ id \in LiveGroups(cellGroups)
    /\ members' = setGroup(members, memberIds \cap LiveMembers(members), id)
    /\ nreq' = nreq + 1
    /\ UNCHANGED <<imports, files, cellGroups, pc, loc, lastCommit>>

---------------------------------------------------------------------------
(* A commit run from its first row to its last, one request at a time *)

\* lines 819-844: the members the lookups of one row may end with on the
\* directory ms ({NoId} when they find none)
lookupMember(row, ms) ==
    LET byEmail == IF row.email # "" THEN findFirstByEmail(ms, row.email) ELSE {NoId}
        byPhone == UNION { IF found = NoId /\ row.phone # ""
                           THEN findFirstByPhone(ms, row.phone) ELSE {found} :
                           found \in byEmail }
    IN  UNION { IF found = NoId /\ row.birthday # ""
                THEN findFirstByNameBirthday(ms, row.firstName, row.lastName,
                                             row.birthday)
                ELSE {found} : found \in byPhone }

\* lines 801-882 with nothing else writing in between: the loop from the row
\* the locals l stand at, on the directory ms, when the rows whose index is in
\* threw throw; the directories and counters it may end with
RECURSIVE runCommit(_, _, _)
runCommit(l, ms, threw) ==
    LET atRow == runLoop(l) IN
    IF atRow.i >= Len(atRow.rows)
    THEN { [members |-> ms,
            result |-> [created |-> atRow.created, updated |-> atRow.updated,
                        skipped |-> atRow.skipped, errors |-> atRow.commitErrors]] }
    ELSE IF atRow.i \in threw THEN runCommit(catchRow(atRow), ms, threw)
    ELSE UNION { runCommit(countWrite([atRow EXCEPT !.existingMember = found],
                                      Len(ms) + 1),
                           writeMember(ms, found,
                                       memberData(atRow.cellGroupMap, curRow(atRow))),
                           threw) :
                 found \in lookupMember(curRow(atRow), ms) }

\* lines 782-799: the locals the loop starts with
commitLocals(cellGroupMap, rawRows, skippedIndices) ==
    [Blank EXCEPT !.rows = stripDuplicateInfo(rawRows),
                  !.skippedIndices = skippedIndices,
                  !.skippedSet = skippedSetOf(skippedIndices),
                  !.cellGroupMap = cellGroupMap]

\* lines 782-902: the directories and CommitResults a commit of rawRows may
\* end with
commitOutcome(ms, cellGroupMap, rawRows, skippedIndices, threw) ==
    runCommit(commitLocals(cellGroupMap, rawRows, skippedIndices), ms, threw)

---------------------------------------------------------------------------
(* Specifications *)

\* a handler's next operation: of an upload,
ContinueUpload(p) ==
    \/ UploadCreate(p)
    \/ UploadCreateRejects(p)

\* of a parse: the dispatch, the update that stores the rows, the catch,
ContinueExtract(p) ==
    \/ ParseExtract(p)
    \/ ParseThrow(p)
    \/ ParseUpdate(p)
    \/ ParseFail(p)
    \/ ParseFailRejects(p)

\* the text of a pdf document or of an image,
ContinueText(p) ==
    \/ ParsePdf(p)
    \/ ParseOcr(p)

\* the queries of checkDuplicates,
ContinueChecks(p) ==
    \/ CheckEmail(p)
    \/ CheckPhone(p)
    \/ CheckName(p)

\* of a parse of a sheet,
ContinueParse(p) ==
    \/ ContinueExtract(p)
    \/ ContinueChecks(p)

\* of a commit,
ContinueCommit(p) ==
    \/ CommitGroups(p)
    \/ CommitGroupsRejects(p)
    \/ LookupEmail(p)
    \/ LookupPhone(p)
    \/ LookupName(p)
    \/ WriteRow(p)
    \/ RowThrow(p)
    \/ CommitStatus(p)
    \/ CommitStatusRejects(p)
    \/ \E unlinked \in BOOLEAN : CommitUnlink(p, unlinked)

\* of any request on a sheet
Continue(p) ==
    \/ ContinueUpload(p)
    \/ ContinueParse(p)
    \/ ContinueCommit(p)

\* no handler runs a request
AllFree == \A q \in Procs : Free(q)

\* a request is given to the first handler that is free
FirstFree(p) == Free(p) /\ \A q \in Procs : Free(q) => p <= q

\* the file parts with a mimetype, an extension and a content from the sets
FileParts(mimetypes, exts, contents) ==
    { FilePart(mimetype, ext, content) :
          mimetype \in mimetypes, ext \in exts, content \in contents }

\* an upload request of one of the callers arrives with one of the file parts
UploadAs(callers, fileParts) ==
    \E p \in Procs :
       /\ FirstFree(p)
       /\ \E caller \in callers, file \in fileParts : Upload(p, caller, file)

\* an upload request of a super_admin arrives
UploadFrom(mimetypes, exts, contents) ==
    UploadAs({SuperAdmin}, FileParts(mimetypes, exts, contents))

UploadAny == UploadFrom(UploadMimes, UploadExts, FileContents)

\* no import yet, no upload under way, and room for one more document
UploadWanted(maxImports) ==
    /\ Len(imports) < maxImports
    /\ Len(files) < maxImports + MaxLostFiles
    /\ \A q \in Procs : pc[q] # "u_create"

\* the sheet uploaded when one row set is committed on two sessions
TwiceContents ==
    { Sheet(StdHeaders, << RawRow("Cy", "Orr", "c@x.com", "555-2", "1990-05-15"),
                           RawRow(" ", "Lee", "a@x.com", "", "") >>) }

\* row lists and skip lists of the requests that run interleaved or repeatedly
FewRows == { << Row("", "Lee", "a@x.com", "", "", ""),
                Row("Bob", "Ray", "", "555-1", "1990-05-15", "Nobody") >>,
             << Row("Cy", "Orr", "c@x.com", "", "", ""),
                Row("Eve", "Fox", "", "", "", "") >> }
FewSkips == { << >>, << 0 >> }
TwiceSkips == { << >>, << 0 >>, << 1 >> }

\* a request the middleware answers: the handler does not run
Rejected(p, kind, id, response) ==
    /\ Free(p)
    /\ nreq' = nreq + 1
    /\ Respond(p, kind, id, response.code, response.error)
    /\ UNCHANGED <<imports, files, members, cellGroups, lastCommit>>

\* lines 686-697: POST /:importId/parse behind authenticateToken
ParseRequest(p, id, caller, checkDuplicatesFlag) ==
    IF authenticateToken(caller) # Passed
    THEN Rejected(p, "parse", id, authenticateToken(caller))
    ELSE \/ ParseFind(p, id, checkDuplicatesFlag)
         \/ FindRejects(p, "parse", id)

\* lines 759-778: POST /:importId/commit behind authenticateToken and
\* requireRole('super_admin')
CommitRequest(p, id, caller, bodies) ==
    LET response == firstRejection(<<authenticateToken(caller),
                                     requireRole(commitRoles, caller)>>)
    IN  IF response # Passed
        THEN Rejected(p, "commit", id, response)
        ELSE \/ CommitFind(p, id, bodies)
             \/ FindRejects(p, "commit", id)

\* a request of one of the callers for import id arrives with inputs from the
\* given sets
ArriveAs(p, id, callers, rowLists, skipLists) ==
    \E caller \in callers :
        \/ \E flag \in BOOLEAN : ParseRequest(p, id, caller, flag)
        \/ CommitRequest(p, id, caller, Bodies(rowLists, skipLists))

\* a request of a super_admin arrives
Arrive(p, id, rowLists, skipLists) == ArriveAs(p, id, {SuperAdmin}, rowLists, skipLists)

\* the text of the image uploaded when requests interleave
ScanContents == { Text(<< "Names", "John Doe" >>) }

\* one import; its requests interleave at every await
Next ==
    \/ UploadWanted(1) /\ UploadAny
    \/ UploadWanted(1) /\ UploadFrom({"image/png"}, {"png"}, ScanContents)
    \/ \E p \in Procs :
          nreq < MaxRaceRequests /\ FirstFree(p) /\ Arrive(p, 1, FewRows, FewSkips)
    \/ \E p \in Procs : Continue(p)
    \/ \E p \in Procs : ParseOcr(p)

Spec == Init /\ [][Next]_vars

\* one import, one request at a time, the larger input sets
NextSeq ==
    \/ AllFree /\ UploadWanted(1) /\ UploadAny
    \/ /\ nreq < MaxSeqRequests
       /\ AllFree
       /\ Arrive(1, 1, ProvidedRows \cup LongRows, SkipLists \cup LongSkips)
    \/ \E p \in Procs : Continue(p)

SpecSeq == Init /\ [][NextSeq]_vars

\* several imports, one request at a time
NextTwice ==
    \/ AllFree /\ UploadWanted(MaxImports) /\ UploadFrom({"text/csv"}, {"csv"}, TwiceContents)
    \/ /\ nreq < MaxRequests
       /\ AllFree
       /\ \E id \in 1..MaxImports : Arrive(1, id, FewRows, TwiceSkips)
    \/ \E p \in Procs : Continue(p)

SpecTwice == Init /\ [][NextTwice]_vars

\* row lists in which rows share an email or a phone. On a directory without
\* c@x.com, d@x.com and 555-2 the first list gives a create, an update of that
\* record found by phone, which replaces its email, and a second create; the
\* second gives a create, a create for the row without a key, and an update
EmailRows ==
    { << Row("Cy", "Orr", "c@x.com", "555-2", "", ""),
         Row("Cy", "Orr", "d@x.com", "555-2", "", ""),
         Row("Cy", "Orr", "c@x.com", "", "", "") >>,
      << Row("Cy", "Orr", "c@x.com", "", "", ""),
         Row("Eve", "Fox", "", "", "", ""),
         Row("Cy", "Orr", "c@x.com", "", "", "") >> }
EmailSkips == { << >>, << 2 >> }

\* several imports, one request at a time, rows that share keys
NextEmails ==
    \/ AllFree /\ UploadWanted(MaxImports) /\ UploadFrom({"text/csv"}, {"csv"}, TwiceContents)
    \/ /\ nreq < MaxRequests
       /\ AllFree
       /\ \E id \in 1..MaxImports : Arrive(1, id, EmailRows, EmailSkips)
    \/ \E p \in Procs : Continue(p)

SpecEmails == Init /\ [][NextEmails]_vars

\* the sheets uploaded when only parse requests are sent
ParseContents ==
    FileContents \cup
    { Sheet(StdHeaders, << RawRow("", " ", "b@x.com", "", "") >>),
      Sheet(StdHeaders, << RawRow("Ann", "Lee", "", "", "1990-05-15 "),
                           RawRow("Dee", " ", "", "", ""),
                           RawRow("Cy", "Orr", "", "", "") >>),
      Sheet(<<"firstname", "LAST NAME", " MOBILE ", "Birth Date", "Referred By",
              "Shoe Size">>,
            << <<"Bob", "Ray", "555-1", "1990-05-15", "Ann", "44">> >>),
      Sheet(<<"First Name", "Last Name", "Telephone", "DOB ">>,
            << <<"Ann", "Lee", "555-1", "1990-05-15">>,
               <<"Bob", "Ray", "", " 05/15/1990">>,
               <<"Cy", "Orr", "", "05-15-1990">>,
               <<"Dee", "Poe", "", "15.05.1990">> >>),
      Sheet(<<"First Name", "Last Name", "Birthday">>,
            << <<"Ann", "Lee", "1990-06-05">>,
               <<"Bob", "Ray", "06/05/1990">>,
               <<"Cy", "Orr", "06-05-1990">>,
               <<"Dee", "Poe", "05.06.1990">>,
               <<"Eve", "Fox", "soon">> >>),
      Sheet(<<"First Name", "Last Name", "Phone", "Telephone", "Marital Status", "Status">>,
            << <<"Ann", "Lee", "555-1", "", " Married", "Active ">>,
               <<"Bob", "Ray", "555-1", "555-2", "", "">> >>) }

\* one import, parse requests only, one at a time, the larger set of sheets
NextParse ==
    \/ AllFree /\ UploadWanted(1) /\ UploadFrom({"text/csv"}, {"csv"}, ParseContents)
    \/ /\ nreq < MaxSeqRequests
       /\ AllFree
       /\ \E flag \in BOOLEAN : ParseRequest(1, 1, SuperAdmin, flag)
    \/ \E p \in Procs : ContinueUpload(p)
    \/ \E p \in Procs : ContinueParse(p)

SpecParse == Init /\ [][NextParse]_vars

\* one pdf document or image, parse requests only, one at a time
NextText ==
    \/ /\ AllFree
       /\ UploadWanted(1)
       /\ UploadFrom({"application/pdf", "image/jpeg"}, {"pdf", "jpg"}, TextContents)
    \/ /\ nreq < MaxSeqRequests
       /\ AllFree
       /\ ParseRequest(1, 1, SuperAdmin, FALSE)
    \/ \E p \in Procs : ContinueUpload(p)
    \/ \E p \in Procs : ContinueExtract(p)
    \/ \E p \in Procs : ContinueText(p)

SpecText == Init /\ [][NextText]_vars

\* the directory the commits of annotated rows start from
DupDirectory ==
    << Member("Ann", "Lee", "a@x.com", Null, Null, NoId),
       Member("Bob", "Ray", Null, "555-1", "1990-05-15T00:00:00.000Z", 1) >>

\* what a caller may leave attached to a supplied row: nothing, or a
\* DuplicateInfo that says no match, or one that points at a member
Unannotated == [isMatch |-> FALSE, matchedMemberId |-> NoId, matchType |-> "absent",
                matchedMemberName |-> <<>>]
DupInfos ==
    { Unannotated, NoMatch,
      MatchInfo(DupDirectory, 1, "email"), MatchInfo(DupDirectory, 2, "phone") }

\* the row with the annotation attached
Annotated(row, info) == IF info = Unannotated THEN row ELSE WithDuplicate(row, info)

\* the row lists that differ from rows in the annotations only
Variants(rows) ==
    { [k \in 1..Len(rows) |-> Annotated(rows[k], infos[k])] :
          infos \in [1..Len(rows) -> DupInfos] }

DupBaseRows ==
    { << Row("Ann", "Lee", "a@x.com", "555-1", "", ""),
         Row("Cy", "Orr", "c@x.com", "", "", "") >>,
      << Row("Ann", "Lee", "", "555-1", "", "YOUTH GROUP"),
         Row("Bob", "Ray", "", "", "1990-05-15", "Nobody") >>,
      << Row("Eve", "Fox", "", "", "", "") >> }

DupRows == UNION {Variants(rows) : rows \in DupBaseRows}

InitDup == Init /\ members = DupDirectory

\* one import, one request at a time, supplied rows with annotations
NextDup ==
    \/ AllFree /\ UploadWanted(1) /\ UploadFrom({"text/csv"}, {"csv"}, TwiceContents)
    \/ /\ nreq < MaxSeqRequests
       /\ AllFree
       /\ Arrive(1, 1, DupRows, FewSkips)
    \/ \E p \in Procs : Continue(p)

SpecDup == InitDup /\ [][NextDup]_vars

\* row lists of the requests when every handler is run to its end: FewRows and
\* the empty list
FairRows == FewRows \cup { << >> }

\* one import, one request at a time
NextFair ==
    \/ AllFree /\ UploadWanted(1) /\ UploadFrom({"text/csv"}, {"csv"}, FileContents)
    \/ /\ nreq < MaxSeqRequests
       /\ AllFree
       /\ Arrive(1, 1, FairRows, FewSkips)
    \/ \E p \in Procs : Continue(p)

\* every awaited operation of a handler settles (the promise resolves or rejects)
SpecFair == Init /\ [][NextFair]_vars /\ \A p \in Procs : WF_vars(Continue(p))

\* one import, one request at a time, from every kind of caller
NextAuth ==
    \/ /\ AllFree
       /\ UploadWanted(1)
       /\ UploadAs(Callers, {NoFile} \cup FileParts({"text/csv"}, UploadExts, TwiceContents))
    \/ /\ nreq < MaxRequests
       /\ AllFree
       /\ ArriveAs(1, 1, Callers, FewRows, FewSkips)
    \/ \E p \in Procs : Continue(p)

SpecAuth == Init /\ [][NextAuth]_vars

\* the rows committed while the other routes write, and the sets their writes
\* take their arguments from
OpenRows ==
    { << Row("Ann", "Lee", "a@x.com", "555-1", "", "Choir"),
         Row("Bob", "Ray", "", "", "1990-05-15", "Nobody") >>,
      << Row("Ann", "Lee", "a@x.com", "555-1", "", "") >> }
OpenIds == 1..2

\* a write of one of the other routes reaches the database
OtherRoutes ==
    \/ \E data \in PostedMembers : MemberPost(data)
    \/ \E id \in OpenIds, updateData \in PutData : MemberPut(id, updateData)
    \/ \E id \in OpenIds : MemberDelete(id)
    \/ \E id \in OpenIds, journeyStatus \in validStatuses : MemberJourney(id, journeyStatus)
    \/ \E id \in OpenIds, updateData \in ApproveData : MemberApprove(id, updateData)
    \/ \E id \in OpenIds : MemberReject(id)
    \/ \E name \in GroupNames : GroupPost(name)
    \/ \E id \in OpenIds, name \in GroupNames : GroupPut(id, name)
    \/ \E id \in OpenIds : GroupDetach(id)
    \/ \E id \in OpenIds : GroupDelete(id)
    \/ \E id \in OpenIds : GroupAssign(id, {1})

\* one import, one request at a time, while the other routes write the directories
NextOpen ==
    \/ AllFree /\ UploadWanted(1) /\ UploadFrom({"text/csv"}, {"csv"}, TwiceContents)
    \/ /\ nreq < MaxOpenRequests
       /\ AllFree
       /\ Arrive(1, 1, OpenRows, { << >> })
    \/ OtherRoutes
    \/ \E p \in Procs : Continue(p)

SpecOpen == Init /\ [][NextOpen]_vars

---------------------------------------------------------------------------
(* Properties *)

CommitPcs == {"c_groups", "c_email", "c_phone", "c_name", "c_write", "c_status", "c_unlink"}

\* the handler awaits a lookup or the write of its current row
RowPcs == {"c_email", "c_phone", "c_name", "c_write"}

Committing == {p \in Procs : pc[p] \in CommitPcs}

\* the loop of handler p is over
LoopOver(p) == pc[p] \in {"c_status", "c_unlink"}

\* this step is a step of handler p
Stepped(p) == <<pc[p], loc[p]>>' # <<pc[p], loc[p]>>

\* the zero-based indices of the rows whose log entry is of a kind in K
Idx(c, K) == {j \in 0..(Len(c.log) - 1) : c.log[j + 1].kind \in K}

Written == {"created", "updated"}
NotWritten == {"marked", "nameless", "threw"}

\* the positions in errors of the entries "Row j+1: ..."
ErrorsOfRow(errors, j) == {k \in 1..Len(errors) : errors[k].row = j + 1}

\* this step of handler p writes its current row to the directory
WriteStep(p) ==
    /\ pc[p] = "c_write"
    /\ Len(loc'[p].log) > Len(loc[p].log)
    /\ loc'[p].log[Len(loc[p].log) + 1].kind \in Written

\* the record has, in every column the data names, the value of the data
Carries(record, data) == \A c \in DOMAIN data : record[c] = data[c]

\* C1: a commit request that finds its import in a status other than "parsed"
\* (pending, failed or committed) never gets past the status check: it is
\* answered 400 as soon as the lookup of the import has settled, and that step
\* leaves the imports table (status, stored rows and errors), the member
\* directory and the uploaded files as they were.
C1_RejectedCommitChangesNothing ==
    [][\A p \in Procs :
          \A id \in 1..Len(imports) :
             ( /\ Free(p) /\ Stepped(p) /\ nreq' = nreq + 1
               /\ loc'[p].kind = "commit" /\ loc'[p].id = id
               /\ imports[id].status # "parsed" )
             => /\ pc'[p] \in {"done", "dead"}
                /\ pc'[p] = "done" =>
                      loc'[p].response =
                         [code |-> 400, error |-> "Import must be parsed before committing"]
                /\ UNCHANGED <<imports, files, members, cellGroups>>]_vars

\* a second commit was turned away from a committed import whose file is still
\* on disk, after the first commit wrote to the directory
C1_Witness ==
    \E p \in Procs :
        /\ pc[p] = "done" /\ loc[p].kind = "commit"
        /\ loc[p].response.code = 400
        /\ loc[p].response.error = "Import must be parsed before committing"
        /\ loc[p].id \in 1..Len(imports)
        /\ imports[loc[p].id].status = "committed"
        /\ fileOf(loc[p].id).exists
        /\ lastCommit.id = loc[p].id
        /\ Idx(lastCommit, Written) # {}

\* C2: of the commit requests on one import at most one is past the status
\* check at any time (the others were rejected), so its rows are applied once.
C2_OneCommitPastTheCheck ==
    \A p, q \in Procs :
        (p # q /\ pc[p] \in CommitPcs /\ pc[q] \in CommitPcs) => loc[p].id # loc[q].id

\* C3: once an import is committed its status never changes again.
C3_CommittedIsFinal ==
    [][\A id \in 1..Len(imports) :
          imports[id].status = "committed" => imports'[id].status = "committed"]_vars

\* the last row before or at j that the commit c wrote to the record row j was
\* written to
LastWriteTo(c, id) ==
    CHOOSE j \in Idx(c, Written) :
        /\ c.log[j + 1].id = id
        /\ \A k \in Idx(c, Written) : c.log[k + 1].id = id => k <= j

\* C4: when the lookup or the write of row j throws, the row is counted as
\* skipped and gets exactly one error entry numbered j+1; the rows after it are
\* still processed (when the loop is over every row has been dealt with, and
\* the handler is then at the status update, never at an error answer); once
\* the status update has settled the import is marked committed, and the
\* answer is the CommitResult with these counters; the records written for
\* earlier rows stay in the directory.
C4_RowErrorIsContained ==
    /\ \A p \in Committing :
          LET l == loc[p] IN
          /\ \A j \in Idx(l, {"threw"}) :
                \E k \in 1..Len(l.commitErrors) :
                    /\ ErrorsOfRow(l.commitErrors, j) = {k}
                    /\ l.commitErrors[k].text = "Error"
          /\ l.skipped = Cardinality(Idx(l, NotWritten))
          /\ Len(l.commitErrors) = Cardinality(Idx(l, {"nameless", "threw"}))
          /\ Len(l.log) = l.i
          /\ (LoopOver(p) => l.i = Len(l.rows))
          /\ (pc[p] = "c_unlink" => imports[l.id].status = "committed")
          /\ \A j \in Idx(l, Written) :
                /\ l.log[j + 1].id \in LiveMembers(members)
                /\ Carries(members[l.log[j + 1].id],
                           memberData(l.cellGroupMap,
                                      l.rows[LastWriteTo(l, l.log[j + 1].id) + 1]))
    /\ \A p \in Procs :
          (pc[p] = "done" /\ loc[p].kind = "commit" /\ loc[p].response.code = 200)
          => /\ lastCommit.id = loc[p].id
             /\ Len(lastCommit.log) = Len(lastCommit.rows)
             /\ lastCommit.result.skipped = Cardinality(Idx(lastCommit, NotWritten))
             /\ \A j \in Idx(lastCommit, {"threw"}) :
                   Cardinality(ErrorsOfRow(lastCommit.result.errors, j)) = 1

\* three rows: the first was written, the second threw, the third was written,
\* and the import is marked committed
C4_Witness ==
    \E p \in Procs :
        /\ pc[p] = "c_unlink"
        /\ Len(loc[p].rows) = 3
        /\ loc[p].log[1].kind \in Written
        /\ loc[p].log[2].kind = "threw"
        /\ loc[p].log[3].kind \in Written
        /\ loc[p].skipped = 1
        /\ loc[p].commitErrors = <<rowError(1, "Error")>>
        /\ imports[loc[p].id].status = "committed"
        /\ Carries(members[loc[p].log[1].id],
                   memberData(loc[p].cellGroupMap, loc[p].rows[1]))

\* the indices the request listed
Listed(l) == {l.skippedIndices[k] : k \in 1..Len(l.skippedIndices)}

\* C5: a row is passed over as marked exactly if its index occurs in
\* skippedIndices, in whatever order and however often it is listed; a marked row
\* gets no lookup, no write and no error entry, also when it has no name, and is
\* counted once in skipped; the other rows are dealt with as usual.
C5_MarkedRowsAreOnlyCounted ==
    \A p \in Committing :
        LET l == loc[p] IN
        /\ \A j \in 0..(Len(l.log) - 1) : (j \in Listed(l)) <=> (l.log[j + 1].kind = "marked")
        /\ \A j \in Idx(l, {"marked"}) : ErrorsOfRow(l.commitErrors, j) = {}
        /\ (pc[p] \in RowPcs => l.i \notin Listed(l))
        /\ l.skipped - Cardinality(Idx(l, {"nameless", "threw"}))
              = Cardinality(Listed(l) \cap (0..(Len(l.log) - 1)))
        /\ l.created + l.updated = Cardinality((0..(Len(l.log) - 1)) \ Listed(l))
                                     - Cardinality(Idx(l, {"nameless", "threw"}))
        /\ (LoopOver(p) => Len(l.log) = Len(l.rows))

\* three rows, the nameless middle one listed twice: skipped is 1, no error, the
\* two others written
C5_Witness ==
    \E p \in Procs :
        /\ pc[p] = "c_unlink"
        /\ Len(loc[p].rows) = 3
        /\ loc[p].skippedIndices = <<1, 1>>
        /\ missingName(loc[p].rows[2])
        /\ loc[p].skipped = 1
        /\ loc[p].commitErrors = <<>>
        /\ loc[p].created + loc[p].updated = 2

\* C6: a row that is not marked and lacks the first or the last name is never
\* looked up or written; it is counted as skipped and gets one error entry
\* numbered index+1, and the loop goes on with the next row; no member without a
\* name enters the directory.
C6_NamelessRowsAreNotWritten ==
    /\ \A p \in Committing :
          LET l == loc[p] IN
          /\ \A j \in 0..(Len(l.log) - 1) :
                (j \notin l.skippedSet /\ (l.rows[j + 1].firstName = "" \/ l.rows[j + 1].lastName = ""))
                <=> (l.log[j + 1].kind = "nameless")
          /\ \A j \in Idx(l, {"nameless"}) :
                \E k \in 1..Len(l.commitErrors) :
                    /\ ErrorsOfRow(l.commitErrors, j) = {k}
                    /\ l.commitErrors[k].text = "Missing first or last name"
          /\ l.skipped >= Cardinality(Idx(l, {"nameless"}))
          /\ (pc[p] \in RowPcs =>
                 curRow(l).firstName # "" /\ curRow(l).lastName # "")
          /\ (LoopOver(p) => Len(l.log) = Len(l.rows))
    /\ \A k \in LiveMembers(members) :
          members[k].firstName # "" /\ members[k].lastName # ""

\* three rows, the middle one without a last name and not marked: the rows
\* around it were written
C6_Witness ==
    \E p \in Procs :
        /\ pc[p] = "c_unlink"
        /\ Len(loc[p].rows) = 3
        /\ loc[p].skippedSet = {}
        /\ loc[p].rows[2].lastName = ""
        /\ loc[p].log[1].kind \in Written
        /\ loc[p].log[2].kind = "nameless"
        /\ loc[p].log[3].kind \in Written
        /\ loc[p].skipped = 1
        /\ loc[p].commitErrors = <<rowError(1, "Missing first or last name")>>

\* the members that have the row's email, its phone, its names and birthday
EmailHits(row, ms) ==
    IF row.email = "" THEN {} ELSE {k \in LiveMembers(ms) : ms[k].email = row.email}

PhoneHits(row, ms) ==
    IF row.phone = "" THEN {} ELSE {k \in LiveMembers(ms) : ms[k].phone = row.phone}

NameBirthdayHits(row, ms) ==
    IF row.birthday = "" THEN {}
    ELSE {k \in LiveMembers(ms) : /\ ms[k].firstName = row.firstName
                                  /\ ms[k].lastName = row.lastName
                                  /\ ms[k].birthday = NewDate(row.birthday)}

\* d is a result the priority email > phone > name and birthday allows
ByPriority(d, row, ms) ==
    LET hit(type, hits) ==
            /\ d.isMatch /\ d.matchType = type /\ d.matchedMemberId \in hits
            /\ d.matchedMemberName = <<ms[d.matchedMemberId].firstName,
                                       ms[d.matchedMemberId].lastName>>
    IN  IF EmailHits(row, ms) # {} THEN hit("email", EmailHits(row, ms))
        ELSE IF PhoneHits(row, ms) # {} THEN hit("phone", PhoneHits(row, ms))
        ELSE IF NameBirthdayHits(row, ms) # {}
             THEN hit("name_birthday", NameBirthdayHits(row, ms))
        ELSE ~d.isMatch /\ d.matchType = "none"

\* the handler is in checkDuplicates or past it
CheckedPcs == CheckPcs \cup {"p_update"}

\* C7: for every candidate row and every directory the matcher reports one
\* result, by strict priority: "email" whenever a member has the row's email,
\* "phone" only if none has and a member has its phone, "name_birthday" only if
\* neither and a member has its names and birthday, else no match (of several
\* members with the same key the database gives any one); every row a parse
\* has checked carries one such result and is otherwise unchanged.
C7_MatcherPriority ==
    /\ \A row \in RowPool :
          /\ duplicateInfoOf(row, members) # {}
          /\ \A d \in duplicateInfoOf(row, members) : ByPriority(d, row, members)
    /\ \A p \in Procs :
          (pc[p] \in CheckedPcs /\ loc[p].checkDuplicatesFlag)
          => /\ Len(loc[p].finalRows) <= Len(loc[p].result.rows)
             /\ pc[p] = "p_update" =>
                   /\ Len(loc[p].finalRows) = Len(loc[p].result.rows)
                   /\ loc[p].finalRows \in checkDuplicates(loc[p].result.rows, members)
             /\ \A k \in 1..Len(loc[p].finalRows) :
                   /\ ByPriority(loc[p].finalRows[k].duplicateInfo,
                                 loc[p].result.rows[k], members)
                   /\ \A f \in ImportedMemberFields :
                         loc[p].finalRows[k][f] = loc[p].result.rows[k][f]

\* a parsed row whose email is one member's and whose phone is another's was
\* reported as an email match
C7_Witness ==
    \E p \in Procs :
        /\ pc[p] = "p_update" /\ loc[p].checkDuplicatesFlag
        /\ \E k \in 1..Len(loc[p].finalRows) :
              LET r == loc[p].finalRows[k] IN
              /\ r.duplicateInfo.matchType = "email"
              /\ PhoneHits(r, members) # {}
              /\ r.duplicateInfo.matchedMemberId \notin PhoneHits(r, members)

\* the log entry the step appends for handler p
NewEntry(p) == loc'[p].log[Len(loc[p].log) + 1]

\* the members the matcher may report for the row (NoId: no match)
Reported(row, ms) == {d.matchedMemberId : d \in duplicateInfoOf(row, ms)}

\* C8: the write of a row agrees with the matcher on the same row and the same
\* directory: the members the lookups of commit may end with are the members
\* the matcher may report (of several members with the same key the database
\* gives any one, to both); the write updates member M only if the matcher may
\* report a match with matchedMemberId M, and creates a record only if the
\* matcher reports no match.
C8_CommitAgreesWithMatcher ==
    [][\A p \in Procs :
          WriteStep(p) =>
             LET row == curRow(loc[p])
                 ds == duplicateInfoOf(row, members)
                 data == memberData(loc[p].cellGroupMap, row)
             IN  /\ lookupMember(row, members) = Reported(row, members)
                 /\ loc[p].existingMember \in Reported(row, members)
                 /\ NewEntry(p).kind = "updated" <=> loc[p].existingMember # NoId
                 /\ NewEntry(p).kind = "updated" =>
                       /\ \E d \in ds : d.isMatch /\ d.matchedMemberId = NewEntry(p).id
                       /\ members' = [members EXCEPT ![NewEntry(p).id] = withData(@, data)]
                 /\ NewEntry(p).kind = "created" =>
                       /\ ds = {NoMatch}
                       /\ Len(members') = Len(members) + 1
                       /\ Carries(members'[Len(members')], data)]_vars

\* a row without email whose phone is a member's updated that member
C8_Witness ==
    \E p \in Procs :
        /\ pc[p] = "c_unlink"
        /\ Len(loc[p].rows) >= 1
        /\ loc[p].rows[1].email = "" /\ loc[p].rows[1].phone # ""
        /\ loc[p].log[1].kind = "updated"
        /\ loc[p].updated = 1 /\ loc[p].created = 0
        /\ members[loc[p].log[1].id].phone = loc[p].rows[1].phone
        /\ members[loc[p].log[1].id].firstName = loc[p].rows[1].firstName

\* C9: the write of a row is one directory write: an update of the member the
\* lookup found (updated + 1, created and the size of the directory unchanged)
\* or else a create (created + 1, updated unchanged, one record more); no other
\* step of a commit changes the directory, so created and updated count the rows
\* written.  A row whose email is a member's is an update, a row that matches
\* in nothing is a create.
C9_OneWritePerRow ==
    [][/\ \A p \in Procs :
             WriteStep(p) =>
                LET l == loc[p]
                    row == curRow(l)
                    data == memberData(l.cellGroupMap, row)
                IN  /\ l.existingMember # NoId =>
                          /\ members' = [members EXCEPT ![l.existingMember] =
                                            withData(@, data)]
                          /\ Carries(members'[l.existingMember], data)
                          /\ Len(members') = Len(members)
                          /\ loc'[p].updated = l.updated + 1
                          /\ loc'[p].created = l.created
                    /\ l.existingMember = NoId =>
                          /\ Len(members') = Len(members) + 1
                          /\ SubSeq(members', 1, Len(members)) = members
                          /\ Carries(members'[Len(members')], data)
                          /\ loc'[p].created = l.created + 1
                          /\ loc'[p].updated = l.updated
                    /\ EmailHits(row, members) # {} => loc'[p].updated = l.updated + 1
                    /\ (EmailHits(row, members) \cup PhoneHits(row, members)
                          \cup NameBirthdayHits(row, members) = {})
                       => loc'[p].created = l.created + 1
                    /\ loc'[p].created = Cardinality(Idx(loc'[p], {"created"}))
                    /\ loc'[p].updated = Cardinality(Idx(loc'[p], {"updated"}))
                    /\ loc'[p].skipped = Cardinality(Idx(loc'[p], NotWritten))
       /\ (\A p \in Procs : ~WriteStep(p)) =>
             /\ members' = members
             /\ \A p \in Procs :
                   (pc[p] \in CommitPcs /\ pc'[p] \in CommitPcs)
                   => loc'[p].created = loc[p].created /\ loc'[p].updated = loc[p].updated]_vars

\* one row whose email is a member's: updated is 1 and created 0, and the
\* directory kept its size
C9_Witness ==
    \E p \in Procs :
        /\ pc[p] = "c_unlink"
        /\ Len(loc[p].rows) = 1
        /\ loc[p].rows[1].email # ""
        /\ loc[p].log = <<[kind |-> "updated", id |-> 1]>>
        /\ loc[p].updated = 1 /\ loc[p].created = 0 /\ loc[p].skipped = 0
        /\ members[1].email = loc[p].rows[1].email
        /\ Len(members) = 2

\* the commit of handler p repeats the rows of the last finished commit, and
\* lists every index of K that commit logged
Repeats(p, K) ==
    /\ LoopOver(p)
    /\ lastCommit.id # 0
    /\ loc[p].rows = lastCommit.rows
    /\ Idx(lastCommit, K) \subseteq Listed(loc[p])

AllSkipped(p) ==
    /\ loc[p].skipped = Len(loc[p].rows)
    /\ loc[p].created = 0
    /\ loc[p].updated = 0

\* C10 as stated: a commit of another import with the rows of the last commit,
\* listing every index that commit created or updated, skips every row.
C10_Original ==
    \A p \in Procs :
        (Repeats(p, Written) /\ loc[p].id # lastCommit.id) => AllSkipped(p)

\* C10: a commit with the rows of the last commit that lists every index that
\* commit created or updated, and also every index it passed over as marked or
\* lost to an error, skips every row: skipped is the number of rows, created and
\* updated are 0.
C10_Idempotent ==
    \A p \in Procs :
        Repeats(p, Written \cup {"marked", "threw"}) => AllSkipped(p)

\* the second import is committed with the rows of the first; the first wrote a
\* row, which the second lists, and the nameless row is skipped again
C10_Witness ==
    \E p \in Procs :
        /\ pc[p] = "c_unlink"
        /\ Repeats(p, Written \cup {"marked", "threw"})
        /\ loc[p].id # lastCommit.id
        /\ Idx(lastCommit, Written) # {}
        /\ Idx(lastCommit, {"nameless"}) # {}
        /\ loc[p].skipped = Len(loc[p].rows)
        /\ Len(loc[p].commitErrors) = 1

\* this step is the arrival of a request of the given kind at handler p
Arrival(p, kind) == Free(p) /\ Stepped(p) /\ nreq' = nreq + 1 /\ loc'[p].kind = kind

\* C11: no step of a commit, with supplied rows or with the stored ones, changes
\* an import's stored rows, stored errors or rowCount: the imports table changes
\* only in the status update, and only in the status of the committed import.
C11_CommitChangesStatusOnly ==
    [][\A p \in Procs :
          (Arrival(p, "commit") \/ (Stepped(p) /\ pc[p] \in CommitPcs))
          => /\ Len(imports') = Len(imports)
             /\ \A id \in 1..Len(imports) :
                   /\ imports'[id].parsedData = imports[id].parsedData
                   /\ imports'[id].errors = imports[id].errors
                   /\ imports'[id].rowCount = imports[id].rowCount
                   /\ imports'[id].fileType = imports[id].fileType
                   /\ imports'[id].filePath = imports[id].filePath
                   /\ imports'[id].status # imports[id].status
                      => /\ pc[p] = "c_status" /\ id = loc[p].id
                         /\ imports'[id].status = "committed"]_vars

\* a commit of supplied rows that differ from the stored ones has written to
\* the directory and marked the import committed; the stored rows, errors and
\* rowCount are those of the parse
C11_Witness ==
    \E p \in Procs :
        /\ pc[p] = "c_unlink"
        /\ loc[p].hasRows
        /\ imports[loc[p].id].status = "committed"
        /\ imports[loc[p].id].rowCount = 2
        /\ Len(imports[loc[p].id].parsedData) = 2
        /\ imports[loc[p].id].errors =
              RowErrors(<< [rowIndex |-> 1, issues |-> <<"Missing first name">>] >>)
        /\ Len(loc[p].rows) = 3
        /\ Idx(loc[p], Written) # {}

\* the rows a commit was given to process: the supplied ones, else the stored ones
SourceRows(l) == IF l.hasRows THEN l.providedRows ELSE imports[l.id].parsedData

\* C12: the rows a commit processes are, row by row and in the same order, the
\* stored parsed rows without their duplicateInfo when the request has no rows,
\* and the supplied rows when it has; these rows are the ones gone through and
\* written.
C12_RowsProcessed ==
    \A p \in Committing :
        LET l == loc[p] IN
        /\ Len(l.rows) = Len(SourceRows(l))
        /\ \A k \in 1..Len(l.rows) :
              /\ DOMAIN l.rows[k] = ImportedMemberFields
              /\ \A f \in ImportedMemberFields : l.rows[k][f] = SourceRows(l)[k][f]
        /\ (l.hasRows => l.providedRows \in ProvidedRows \cup LongRows)
        /\ Len(l.log) = l.i
        /\ (LoopOver(p) => l.i = Len(l.rows))
        /\ \A j \in Idx(l, Written) :
              members[l.log[j + 1].id].firstName
                 = SourceRows(l)[LastWriteTo(l, l.log[j + 1].id) + 1].firstName

\* a commit without rows went through the stored rows, which carry a
\* duplicateInfo, and updated the member the stored row matched
C12_Witness ==
    \E p \in Procs :
        /\ pc[p] = "c_unlink"
        /\ ~loc[p].hasRows
        /\ Len(loc[p].rows) = 1
        /\ "duplicateInfo" \in DOMAIN imports[loc[p].id].parsedData[1]
        /\ imports[loc[p].id].parsedData[1].duplicateInfo.isMatch
        /\ "duplicateInfo" \notin DOMAIN loc[p].rows[1]
        /\ loc[p].log = <<[kind |-> "updated", id |-> 1]>>
        /\ members[1].firstName = imports[loc[p].id].parsedData[1].firstName

\* C13: when the extraction or the duplicate check of a parse throws, the throw
\* itself changes nothing; the catch then marks the import failed, stores the
\* error message and sends the one response of the request, 500; the member
\* directory is not touched.
C13_ParseFailureIsCaught ==
    [][\A p \in Procs :
          /\ (pc[p] \in TryPcs /\ pc'[p] = "p_fail")
             => /\ UNCHANGED <<imports, files, members, cellGroups>>
                /\ loc'[p].response = NoResponse
          /\ (pc[p] = "p_fail" /\ Stepped(p))
             => /\ pc'[p] = "done"
                /\ loc'[p].response = [code |-> 500, error |-> "Failed to parse file"]
                /\ imports' = [imports EXCEPT ![loc[p].id] =
                                  [@ EXCEPT !.status = "failed",
                                            !.errors = ErrorMessage("Error")]]
                /\ UNCHANGED <<files, members, cellGroups>>]_vars

ParseRejections ==
    { [code |-> 404, error |-> "Import not found"],
      [code |-> 404, error |-> "File not found on server"],
      [code |-> 400, error |-> "Unsupported file type"] }

\* C14: a parse that is answered "Import not found", "File not found on server"
\* or "Unsupported file type" has changed nothing: neither its first step, the
\* lookup of the import, nor the step that answers changes the imports table,
\* the files or the directory.
C14_RejectedParseChangesNothing ==
    [][\A p \in Procs :
          ( /\ Stepped(p)
            /\ loc'[p].kind = "parse"
            /\ \/ Arrival(p, "parse")
               \/ pc'[p] = "done" /\ loc'[p].response \in ParseRejections )
          => UNCHANGED <<imports, files, members, cellGroups>>]_vars

\* a parse of a committed import whose file is gone was turned away; the
\* import is still committed and holds its rows
C14_Witness ==
    \E p \in Procs :
        /\ pc[p] = "done" /\ loc[p].kind = "parse"
        /\ loc[p].response = [code |-> 404, error |-> "File not found on server"]
        /\ ~fileOf(loc[p].id).exists
        /\ imports[loc[p].id].status = "committed"
        /\ imports[loc[p].id].parsedData # <<>>
        /\ imports[loc[p].id].rowCount = Len(imports[loc[p].id].parsedData)

\* C15: every import has a file type the parse has a case for, and no parse is
\* answered "Unsupported file type".
C15_EverySessionDispatches ==
    /\ \A id \in 1..Len(imports) : imports[id].fileType \in dispatchTypes
    /\ \A p \in Procs :
          ~(pc[p] = "done" /\ loc[p].kind = "parse"
            /\ loc[p].response.error = "Unsupported file type")

\* the handler holds the result of an extraction
ExtractedPcs == CheckPcs \cup {"p_update"}

\* the document the parse of handler p reads
Document(p) == files[loc[p].importRecord.filePath].content

\* the column of a sheet whose header is one of the given spellings
ColumnOf(headers, spellings) == CHOOSE k \in 1..Len(headers) : headers[k] \in spellings

FirstNameSpellings == {"First Name", "firstname"}
LastNameSpellings == {"Last Name", "LAST NAME"}

\* a cell text that is empty after trimming
BlankCell(text) == text \in {"", " "}

\* C16: the extraction of a sheet gives one record per row, in the order of the
\* rows (record k has the trimmed names of row k); a row has a RowError exactly
\* if its first name or its last name is blank; the RowErrors are in row order,
\* none for the same row twice, each with the zero-based index of its row and
\* one issue per missing name, the first name's first.
C16_ExtractorIsTotal ==
    \A p \in Procs :
        pc[p] \in ExtractedPcs =>
           LET sheet == Document(p)
               res == loc[p].result
               n == Len(sheet.data)
               fn(k) == sheet.data[k][ColumnOf(sheet.headers, FirstNameSpellings)]
               ln(k) == sheet.data[k][ColumnOf(sheet.headers, LastNameSpellings)]
               issues(k) ==
                   (IF BlankCell(fn(k)) THEN <<"Missing first name">> ELSE <<>>)
                   \o (IF BlankCell(ln(k)) THEN <<"Missing last name">> ELSE <<>>)
           IN  /\ Len(res.rows) = n
               /\ \A k \in 1..n :
                     /\ res.rows[k].firstName = (IF BlankCell(fn(k)) THEN "" ELSE Trim(fn(k)))
                     /\ res.rows[k].lastName = (IF BlankCell(ln(k)) THEN "" ELSE Trim(ln(k)))
                     /\ (BlankCell(fn(k)) \/ BlankCell(ln(k)))
                        <=> (\E e \in 1..Len(res.errors) : res.errors[e].rowIndex = k - 1)
               /\ \A e \in 1..Len(res.errors) :
                     /\ res.errors[e].rowIndex \in 0..(n - 1)
                     /\ res.errors[e].issues = issues(res.errors[e].rowIndex + 1)
                     /\ \A d \in 1..(e - 1) : res.errors[d].rowIndex < res.errors[e].rowIndex

\* a sheet of one row without first and last name: one record, and one RowError
\* at index 0 with the two issues
C16_Witness ==
    \E p \in Procs :
        /\ pc[p] = "p_update"
        /\ Len(loc[p].result.rows) = 1
        /\ loc[p].result.rows[1].email = "b@x.com"
        /\ loc[p].result.errors =
              << [rowIndex |-> 0,
                  issues |-> <<"Missing first name", "Missing last name">>] >>

\* the headers used that are spellings of a synonym the specification lists,
\* and the field each stands for
ListedHeaders == {"Telephone", " MOBILE ", "Birth Date", "DOB ", "Referred By"}

ListedField(header) ==
    CASE header \in {"Telephone", " MOBILE "} -> "phone"
      [] header \in {"Birth Date", "DOB "} -> "birthday"
      [] header = "Referred By" -> "broughtBy"

\* C17: in every sheet a parse has extracted, a header that is a spelling of
\* "telephone", "mobile", "birth date", "dob" or "referred by", in any case and
\* with any surrounding whitespace, is mapped to phone, birthday or broughtBy,
\* and a header that is no synonym is not mapped.
C17_SynonymsAreMapped ==
    \A p \in Procs :
        pc[p] \in ExtractedPcs =>
           LET headers == Document(p).headers IN
           \A k \in 1..Len(headers) :
               /\ headers[k] \in ListedHeaders
                  => normalizeColumnName(headers[k]) = ListedField(headers[k])
               /\ headers[k] = "Shoe Size" => normalizeColumnName(headers[k]) = Null

\* the calendar date a cell text writes, as YYYY-MM-DD; "" for a text that is
\* no date
CalendarDate(text) ==
    CASE text \in {"1990-05-15", "1990-05-15 ", " 05/15/1990", "05-15-1990", "15.05.1990"}
            -> "1990-05-15"
      [] text \in {"1990-06-05", "06/05/1990", "06-05-1990", "05.06.1990"} -> "1990-06-05"
      [] OTHER -> ""

\* C18: in every sheet a parse has extracted, the birthday of a record is the
\* YYYY-MM-DD text of the calendar date its cell writes, whichever of the four
\* encodings the cell uses, and is absent for a cell that is no date.
C18_EncodingsAgree ==
    \A p \in Procs :
        pc[p] \in ExtractedPcs =>
           LET sheet == Document(p) IN
           \A k \in 1..Len(sheet.headers) :
               normalizeColumnName(sheet.headers[k]) = "birthday"
               => \A r \in 1..Len(sheet.data) :
                      loc[p].result.rows[r].birthday = CalendarDate(sheet.data[r][k])

\* C19: a commit request of a caller who is not a verified super_admin is
\* answered by the middleware (403 "Insufficient permissions" for a verified
\* caller with another role) and leaves the directory, the imports table and
\* the files as they were; the handler does not start.
C19_CommitNeedsSuperAdmin ==
    [][\A p \in Procs :
          \A caller \in Callers \ {SuperAdmin} :
             CommitRequest(p, 1, caller, Bodies(FewRows, FewSkips))
             => /\ pc'[p] = "done"
                /\ loc'[p].kind = "commit"
                /\ loc'[p].response.code \in {401, 403}
                /\ caller = CellLeader
                   => loc'[p].response = [code |-> 403, error |-> "Insufficient permissions"]
                /\ UNCHANGED <<imports, files, members, cellGroups, lastCommit>>]_vars

\* a commit of a parsed import was refused for the caller's role: the import is
\* still parsed, its file is there, nothing was committed
C19_Witness ==
    \E p \in Procs :
        /\ pc[p] = "done" /\ loc[p].kind = "commit"
        /\ loc[p].response = [code |-> 403, error |-> "Insufficient permissions"]
        /\ loc[p].id \in 1..Len(imports)
        /\ imports[loc[p].id].status = "parsed"
        /\ imports[loc[p].id].parsedData # <<>>
        /\ fileOf(loc[p].id).exists
        /\ lastCommit = NoCommit

\* C20: a file disappears only in the last step of a commit, for the import of
\* that commit, which is marked committed by then; no step of a parse and no
\* rejected commit removes a file (the only other change of the files is an
\* upload storing a new one); and that last step, whether the deletion worked
\* or not, answers 200 with the CommitResult and leaves the import committed.
C20_FileDeletedAfterCommit ==
    [][/\ files' # files =>
             \/ /\ Len(files') = Len(files) + 1
                /\ SubSeq(files', 1, Len(files)) = files
             \/ \E p \in Procs :
                   /\ pc[p] = "c_unlink" /\ pc'[p] = "done"
                   /\ imports[loc[p].id].status = "committed"
                   /\ files' = [files EXCEPT ![imports[loc[p].id].filePath] =
                                   [@ EXCEPT !.exists = FALSE]]
       /\ \A p \in Procs :
             (pc[p] = "c_unlink" /\ Stepped(p))
             => /\ pc'[p] = "done"
                /\ loc'[p].response = [code |-> 200, error |-> ""]
                /\ lastCommit'.id = loc[p].id
                /\ lastCommit'.result =
                      [created |-> loc[p].created, updated |-> loc[p].updated,
                       skipped |-> loc[p].skipped, errors |-> loc[p].commitErrors]
                /\ imports' = imports
                /\ imports'[loc[p].id].status = "committed"]_vars

\* a commit was answered 200 although its file could not be deleted: the file
\* is there, the import is committed
C20_Witness ==
    \E p \in Procs :
        /\ pc[p] = "done" /\ loc[p].kind = "commit"
        /\ loc[p].response.code = 200
        /\ fileOf(loc[p].id).exists
        /\ imports[loc[p].id].status = "committed"
        /\ lastCommit.id = loc[p].id
        /\ lastCommit.result.created + lastCommit.result.updated > 0

\* the row at which handler p stands has the email of member a and the phone of
\* another member b
Conflict(p, a, b) ==
    /\ pc[p] \in RowPcs
    /\ a \in EmailHits(curRow(loc[p]), members)
    /\ b \in PhoneHits(curRow(loc[p]), members)
    /\ a # b

\* C21: when the row's email is member A's and its phone is another member B's,
\* the email lookup settles the row (no phone lookup follows), and the write
\* updates A only: A gets the row's fields, its phone among them, B and every
\* other record stay as they were, no record is added, updated goes up by one,
\* created stays as it was, and the row is neither counted as skipped nor given
\* an error entry (skipped grows only by the rows passed over after it).
C21_FirstMatchWins ==
    [][\A p \in Procs : \A a, b \in 1..Len(members) :
          Conflict(p, a, b) =>
             /\ pc[p] # "c_phone" /\ pc[p] # "c_name"
             /\ (pc[p] = "c_email" /\ Stepped(p) /\ Len(loc'[p].log) = Len(loc[p].log))
                => (pc'[p] = "c_write" /\ loc'[p].existingMember = a)
             /\ WriteStep(p) =>
                   /\ NewEntry(p) = [kind |-> "updated", id |-> a]
                   /\ members' = [members EXCEPT ![a] =
                                     withData(@, memberData(loc[p].cellGroupMap,
                                                            curRow(loc[p])))]
                   /\ members'[a].phone = curRow(loc[p]).phone
                   /\ members'[b] = members[b]
                   /\ loc'[p].updated = loc[p].updated + 1
                   /\ loc'[p].created = loc[p].created
                   /\ loc'[p].skipped = loc[p].skipped
                         + Cardinality({j \in Idx(loc'[p], NotWritten) : j > loc[p].i})
                   /\ ErrorsOfRow(loc'[p].commitErrors, loc[p].i) = {}]_vars

\* a one-row commit whose row has member 1's email and member 2's phone: member
\* 1 now has that phone too, member 2 is as it was, one update and no error
C21_Witness ==
    \E p \in Procs :
        /\ pc[p] = "c_unlink"
        /\ Len(loc[p].rows) = 1
        /\ loc[p].rows[1].email = "a@x.com" /\ loc[p].rows[1].phone = "555-1"
        /\ loc[p].log = << [kind |-> "updated", id |-> 1] >>
        /\ members[1].phone = "555-1"
        /\ members[2] = Member("Bob", "Ray", Null, "555-1", "1990-05-15T00:00:00.000Z", 1)
        /\ loc[p].updated = 1 /\ loc[p].created = 0 /\ loc[p].skipped = 0
        /\ loc[p].commitErrors = << >>

\* the handler is in a parse, past the lookup of its import
ParsePcs == TryPcs \cup {"p_fail"}

\* C22: a parse request that found its import and the import's file completes
\* leaving the import parsed (rows, errors and rowCount stored) or failed,
\* never pending: the step that answers such a request leaves the status
\* "parsed" or "failed".
C22_CompletedParseSettles ==
    [][\A p \in Procs :
          ( /\ pc[p] \in ParsePcs /\ pc'[p] = "done"
            /\ pc[p] = "p_extract" => files[loc[p].importRecord.filePath].exists )
          => /\ imports'[loc[p].id].status \in {"parsed", "failed"}
             /\ imports'[loc[p].id].status = "parsed"
                => /\ imports'[loc[p].id].parsedData = loc[p].finalRows
                   /\ imports'[loc[p].id].errors = RowErrors(loc[p].result.errors)
                   /\ imports'[loc[p].id].rowCount = Len(loc[p].result.rows)]_vars

\* the texts used that have, among their first five lines, a line with a
\* keyword and a separator
HeaderTexts ==
    { << "First Name,Last Name,Email", "John,Doe,john@x.com", ",Roe," >>,
      << "First Name,Last Name" >> }

\* the first and last names of the lines of a text that start with two
\* capitalized words, in the order of the lines
NameShaped(text) ==
    CASE text = << "John Doe john@x.com 555-123-4567", "random junk", " Mary Major " >>
            -> << <<"John", "Doe">>, <<"Mary", "Major">> >>
      [] text = << "Names", "John Doe" >> -> << <<"John", "Doe">> >>
      [] text = << "a1", "b2", "c3", "d4", "e5", "First Name|Last Name", "John|Doe" >>
            -> << <<"First", "Name">> >>
      [] OTHER -> << >>

\* C23: for a text in which no header line is detected, the extraction gives no
\* row and exactly one RowError, at index 0, saying that no record could be
\* parsed, when no line starts with a name; and when some line does, it gives
\* one record per such line, each with a non-empty first and last name, and no
\* RowError.
C23_FallbackReport ==
    \A p \in Procs :
        (pc[p] \in ExtractedPcs /\ Document(p).text \notin HeaderTexts) =>
           LET names == NameShaped(Document(p).text)
               res == loc[p].result
           IN  /\ names = << >> =>
                     /\ res.rows = << >>
                     /\ res.errors =
                           << [rowIndex |-> 0,
                               issues |-> <<"Could not parse any member records from text">>] >>
               /\ names # << >> =>
                     /\ res.errors = << >>
                     /\ Len(res.rows) = Len(names)
                     /\ \A k \in 1..Len(names) :
                           /\ <<res.rows[k].firstName, res.rows[k].lastName>> = names[k]
                           /\ res.rows[k].firstName # "" /\ res.rows[k].lastName # ""

\* a text without header and without a name was extracted: no row, one RowError
\* at index 0
C23_Witness ==
    \E p \in Procs :
        /\ pc[p] = "p_update"
        /\ Document(p).text = << "", "  ", "hello world", "12345" >>
        /\ loc[p].result.rows = << >>
        /\ Len(loc[p].result.errors) = 1
        /\ loc[p].result.errors[1].rowIndex = 0

\* two names are equal when letter case is ignored (for the names used)
EqualIgnoringCase(a, b) ==
    \/ a = b
    \/ {a, b} \subseteq {"Youth Group", "YOUTH GROUP", "youth group"}
    \/ {a, b} \subseteq {"Choir", "choir"}
    \/ {a, b} \subseteq {"Nobody", "nobody"}

\* the groups of the directory that have the name
GroupsNamed(name) ==
    {g \in LiveGroups(cellGroups) : EqualIgnoringCase(cellGroups[g].name, name)}

\* C24: the record a row is written to gets the id of the group whose name is
\* the row's cellGroupName when letter case is ignored; a row without group name
\* and a row whose group name no group has are written all the same (created or
\* updated), with no group assigned; the row is not counted as skipped and gets
\* no error entry.
C24_GroupResolution ==
    [][\A p \in Procs :
          WriteStep(p) =>
             LET row == curRow(loc[p])
                 written == members'[NewEntry(p).id]
             IN  /\ NewEntry(p).kind \in Written
                 /\ IF row.cellGroupName # "" /\ GroupsNamed(row.cellGroupName) # {}
                    THEN written.cellGroupId \in GroupsNamed(row.cellGroupName)
                    ELSE written.cellGroupId = NoId
                 /\ \A f \in {"firstName", "lastName"} : written[f] = row[f]
                 /\ ErrorsOfRow(loc'[p].commitErrors, loc[p].i) = {}
                 /\ loc'[p].skipped = loc[p].skipped
                       + Cardinality({j \in Idx(loc'[p], NotWritten) : j > loc[p].i})]_vars

\* two rows were written without error: the first names a group in other letter
\* case and its record is in that group, the second names a group that does
\* not exist and its record is in no group
C24_Witness ==
    \E p \in Procs :
        /\ pc[p] = "c_unlink"
        /\ Len(loc[p].rows) = 2
        /\ loc[p].rows[1].cellGroupName = "YOUTH GROUP"
        /\ loc[p].rows[2].cellGroupName = "Nobody"
        /\ loc[p].log[1].kind \in Written /\ loc[p].log[2].kind \in Written
        /\ loc[p].log[1].id # loc[p].log[2].id
        /\ members[loc[p].log[1].id].cellGroupId = 1
        /\ members[loc[p].log[2].id].cellGroupId = NoId
        /\ loc[p].skipped = 0 /\ loc[p].commitErrors = << >>

\* the rows as the commit of handler p received them, annotations included
RawRows(l) == IF l.hasRows THEN l.providedRows ELSE l.importRecord.parsedData

\* C25: a commit that is the second request of a behaviour (the first was the
\* parse of its import, which writes no member), hence started on the directory
\* DupDirectory, ends with a directory and counters that a commit of the same
\* rows may end with under any other annotations (none, no match, a match with
\* any member), the same skippedIndices and the same rows throwing, and the
\* annotations change nothing in what a commit may end with; no record of the
\* directory has a duplicateInfo.
C25_AnnotationsDoNotCount ==
    /\ \A p \in Procs :
          (pc[p] = "c_unlink" /\ nreq = 2) =>
             LET l == loc[p]
                 actual == [members |-> members,
                            result |-> [created |-> l.created, updated |-> l.updated,
                                        skipped |-> l.skipped, errors |-> l.commitErrors]]
                 plain == commitOutcome(DupDirectory, l.cellGroupMap,
                                        stripDuplicateInfo(RawRows(l)),
                                        l.skippedIndices, Idx(l, {"threw"}))
             IN  /\ actual \in plain
                 /\ \A rawRows \in Variants(stripDuplicateInfo(RawRows(l))) :
                       commitOutcome(DupDirectory, l.cellGroupMap, rawRows,
                                     l.skippedIndices, Idx(l, {"threw"})) = plain
    /\ \A k \in 1..Len(members) : DOMAIN members[k] = MemberColumns

\* a commit ended in which the first row, annotated as no match, updated member
\* 1, and the second, annotated as a match with member 1, was created
C25_Witness ==
    \E p \in Procs :
        /\ pc[p] = "c_unlink" /\ nreq = 2
        /\ loc[p].hasRows /\ Len(loc[p].providedRows) = 2
        /\ "duplicateInfo" \in DOMAIN loc[p].providedRows[1]
        /\ ~loc[p].providedRows[1].duplicateInfo.isMatch
        /\ "duplicateInfo" \in DOMAIN loc[p].providedRows[2]
        /\ loc[p].providedRows[2].duplicateInfo.matchedMemberId = 1
        /\ loc[p].log = << [kind |-> "updated", id |-> 1], [kind |-> "created", id |-> 3] >>
        /\ members[3].email = "c@x.com"

\* the listed indices that are indices of the first n rows (each counted once)
ListedBelow(skippedSet, n) == skippedSet \cap (0..(n - 1))

\* C26: at every point of a commit the rows dealt with so far are conserved:
\* created + updated + skipped is their number, and the number of error entries
\* is skipped minus the number of listed indices among them; so the
\* CommitResult has created + updated + skipped = rows.length and as many errors
\* as skipped minus the listed indices in [0, rows.length); an index outside
\* that range is counted nowhere and marks no row.
C26_RowsAreConserved ==
    /\ \A p \in Committing :
          LET l == loc[p] IN
          /\ l.created + l.updated + l.skipped = l.i
          /\ Len(l.commitErrors) = l.skipped - Cardinality(ListedBelow(l.skippedSet, l.i))
          /\ Idx(l, {"marked"}) = ListedBelow(l.skippedSet, l.i)
          /\ (LoopOver(p) => l.i = Len(l.rows))
    /\ \A p \in Procs :
          (pc[p] = "done" /\ loc[p].kind = "commit" /\ loc[p].response.code = 200) =>
             LET c == lastCommit IN
             /\ c.result.created + c.result.updated + c.result.skipped = Len(c.rows)
             /\ Len(c.result.errors)
                   = c.result.skipped - Cardinality(ListedBelow(c.skippedSet, Len(c.rows)))
             /\ c.result.created = Cardinality(Idx(c, {"created"}))
             /\ c.result.updated = Cardinality(Idx(c, {"updated"}))

\* a commit of two rows that listed index 2 answered: nothing was passed over
\* as marked, one row was written and one was skipped with an error entry
C26_Witness ==
    \E p \in Procs :
        /\ pc[p] = "done" /\ loc[p].kind = "commit" /\ loc[p].response.code = 200
        /\ Len(lastCommit.rows) = 2
        /\ lastCommit.skippedSet = {2}
        /\ lastCommit.result.skipped = 1
        /\ Len(lastCommit.result.errors) = 1
        /\ lastCommit.result.created + lastCommit.result.updated = 1

\* C27: a commit past the status check with a row list that is not empty always
\* marks its import committed, whatever became of the rows (also when none was
\* created or updated): every step that ends the commit leaves the import
\* committed and the request answered, and the step at the status update marks
\* the import committed;
\* and a commit request that finds its import parsed is turned away with 400
\* "No data to import" exactly when its row list (the supplied one, else the
\* stored one) is empty, leaving the import parsed and its file in place.
C27_CommitEndsCommitted ==
    [][\A p \in Procs :
         /\ (pc[p] \in CommitPcs /\ Stepped(p) /\ pc'[p] \notin CommitPcs)
            => (imports'[loc[p].id].status = "committed" /\ pc'[p] = "done")
         /\ (pc[p] = "c_status" /\ Stepped(p))
            => (imports'[loc[p].id].status = "committed" /\ pc'[p] = "c_unlink")
         /\ \A id \in 1..Len(imports) :
               ( /\ Arrival(p, "commit") /\ loc'[p].id = id
                 /\ pc'[p] # "dead"
                 /\ imports[id].status = "parsed" )
               => \E body \in Bodies(FairRows, FewSkips) :
                     LET rows == IF body.hasRows THEN body.rows
                                 ELSE imports[id].parsedData
                     IN  IF rows = << >>
                         THEN /\ pc'[p] = "done"
                              /\ loc'[p].response =
                                    [code |-> 400, error |-> "No data to import"]
                              /\ UNCHANGED <<imports, files, members, cellGroups>>
                              /\ files'[imports[id].filePath].exists
                         ELSE /\ pc'[p] = "c_groups"
                              /\ Len(loc'[p].rows) = Len(rows)
                              /\ loc'[p].hasRows = body.hasRows
                              /\ loc'[p].providedRows = body.rows]_vars

\* no two records of the directory share an email (records without one aside)
EmailsUnique(ms) ==
    \A a, b \in 1..Len(ms) :
        (a # b /\ ms[a].email # Null) => ms[a].email # ms[b].email

\* C28 as stated: with commits run one at a time on a directory whose emails
\* are unique, the emails stay unique, and two written rows of one commit that
\* carry the same new email (the first written row that carries it is a create,
\* so no record had it) are one create and one update of the record created,
\* whatever the rows between them did.
C28_Original ==
    /\ EmailsUnique(members)
    /\ \A p \in Committing :
          LET l == loc[p] IN
          \A j, k \in Idx(l, Written) :
             ( /\ j < k
               /\ l.rows[j + 1].email # ""
               /\ l.rows[j + 1].email = l.rows[k + 1].email
               /\ l.log[j + 1].kind = "created"
               /\ \A m \in Idx(l, Written) :
                     m < j => l.rows[m + 1].email # l.rows[j + 1].email )
             => /\ l.log[k + 1].kind = "updated"
                /\ l.log[k + 1].id = l.log[j + 1].id

\* C28: with commits run one at a time, one after another, on a directory whose
\* emails are unique, the emails stay unique at every point; and of two written
\* rows of one commit that carry the same email, the later one is an update of
\* the record the earlier one created or updated, unless a row written between
\* them went to that same record with another email or none (found there by
\* phone or by name and birthday). So the same new email twice is one create
\* and one update of that record as long as the record still carries the email;
\* two creates for one email happen only when a row between them replaced the
\* email of the record first created.
C28_EmailsStayUnique ==
    /\ EmailsUnique(members)
    /\ \A p \in Committing :
          LET l == loc[p] IN
          \A j, k \in Idx(l, Written) :
             ( /\ j < k
               /\ l.rows[j + 1].email # ""
               /\ l.rows[j + 1].email = l.rows[k + 1].email
               /\ \A m \in Idx(l, Written) :
                     (j < m /\ m < k /\ l.log[m + 1].id = l.log[j + 1].id)
                     => l.rows[m + 1].email = l.rows[j + 1].email )
             => /\ l.log[k + 1].kind = "updated"
                /\ l.log[k + 1].id = l.log[j + 1].id

\* the second of two commits was answered. The first one left a record whose
\* email a row found by phone had replaced by d@x.com; the second had two rows
\* with the email c@x.com, which no record had, and a row written between them:
\* the first row created a record, the row between created another, and the
\* third updated the record of the first, the only record with that email
C28_Witness ==
    \E p \in Procs :
        /\ pc[p] = "done" /\ loc[p].kind = "commit" /\ loc[p].response.code = 200
        /\ lastCommit.id = 2
        /\ imports[1].status = "committed"
        /\ \E a \in 1..Len(members) :
              members[a].email = "d@x.com" /\ members[a].phone = "555-2"
        /\ Len(lastCommit.rows) = 3
        /\ lastCommit.rows[1].email = "c@x.com"
        /\ lastCommit.rows[3].email = "c@x.com"
        /\ lastCommit.log[1].kind = "created"
        /\ lastCommit.log[2].kind = "created"
        /\ lastCommit.log[3] = [kind |-> "updated", id |-> lastCommit.log[1].id]
        /\ Cardinality({a \in 1..Len(members) : members[a].email = "c@x.com"}) = 1

\* record id of the directory matches the row by a key the row has
MatchedBy(type, row, ms, id) ==
    /\ id \in LiveMembers(ms)
    /\ CASE type = "email" -> row.email # "" /\ ms[id].email = row.email
         [] type = "phone" -> row.phone # "" /\ ms[id].phone = row.phone
         [] type = "name_birthday" ->
               /\ row.birthday # ""
               /\ ms[id].firstName = row.firstName /\ ms[id].lastName = row.lastName
               /\ ms[id].birthday = NewDate(row.birthday)
         [] OTHER -> FALSE

MatchTypes == {"email", "phone", "name_birthday"}

Keyless(row) == row.email = "" /\ row.phone = "" /\ row.birthday = ""

\* C29: a key the row lacks is never asked for and never matched. In commit a
\* handler awaits the email lookup only for a row with an email, the phone
\* lookup only for a row with a phone, the name+birthday lookup only for a row
\* with a birthday; the record a row is about to update matches it by a key the
\* row has; a row without any of the three is never written as an update. In
\* the Duplicate Matcher a handler awaits a query only for a key the row has,
\* and on every directory reached (also those with records whose email or
\* phone is null), a match of a type is a match by that key of the row, and a
\* row without any of the three gets isMatch false.
C29_AbsentKeyNeverMatches ==
    /\ \A p \in Committing :
          LET l == loc[p] IN
          /\ (pc[p] = "c_email" => curRow(l).email # "")
          /\ (pc[p] = "c_phone" => curRow(l).phone # "")
          /\ (pc[p] = "c_name" => curRow(l).birthday # "")
          /\ (pc[p] \in {"c_phone", "c_name", "c_write"} /\ l.existingMember # NoId)
                => \E type \in MatchTypes :
                      MatchedBy(type, curRow(l), members, l.existingMember)
          /\ \A j \in Idx(l, {"updated"}) : ~Keyless(l.rows[j + 1])
    /\ \A p \in Procs :
          /\ (pc[p] = "d_email" => checkRow(loc[p]).email # "")
          /\ (pc[p] = "d_phone" => checkRow(loc[p]).phone # "")
          /\ (pc[p] = "d_name" => checkRow(loc[p]).birthday # "")
    /\ \A row \in RowPool :
          /\ \A d \in duplicateInfoOf(row, members) :
                d.isMatch => /\ d.matchType \in MatchTypes
                             /\ MatchedBy(d.matchType, row, members, d.matchedMemberId)
          /\ Keyless(row) => duplicateInfoOf(row, members) = {NoMatch}

\* a commit of the one row Eve Fox, which has no email, phone or birthday, was
\* answered on a directory that holds a record without email and a record
\* without phone: the row was created, and the matcher reports no match for it
C29_Witness ==
    \E p \in Procs :
        /\ pc[p] = "done" /\ loc[p].kind = "commit" /\ loc[p].response.code = 200
        /\ lastCommit.rows = << Row("Eve", "Fox", "", "", "", "") >>
        /\ lastCommit.log = << [kind |-> "created", id |-> Len(members)] >>
        /\ \E a \in 1..(Len(members) - 1) : members[a].email = Null
        /\ \E a \in 1..(Len(members) - 1) : members[a].phone = Null
        /\ duplicateInfoOf(Row("Eve", "Fox", "", "", "", ""), members) = {NoMatch}

\* the value an optional text field of the row leaves in the record
ValueOrNull(v) == IF v = "" THEN Null ELSE v

\* the ids the map a commit holds has for the name when letter case is ignored
GroupsMapped(cellGroupMap, name) ==
    {e[2] : e \in {x \in cellGroupMap : EqualIgnoringCase(x[1], name)}}

\* the row has been copied over record m by a commit that holds the map
Overwritten(m, row, cellGroupMap) ==
    /\ m.firstName = row.firstName
    /\ m.lastName = row.lastName
    /\ m.email = ValueOrNull(row.email)
    /\ m.phone = ValueOrNull(row.phone)
    /\ m.address = ValueOrNull(row.address)
    /\ IF row.birthday = "" THEN m.birthday = Null
       ELSE m.birthday = NewDate(row.birthday)
    /\ IF row.maritalStatus = "" THEN m.maritalStatus = "undisclosed"
       ELSE m.maritalStatus = row.maritalStatus
    /\ IF row.status = "" THEN m.status = "pending_approval"
       ELSE m.status = row.status
    /\ IF row.cellGroupName = "" \/ GroupsMapped(cellGroupMap, row.cellGroupName) = {}
       THEN m.cellGroupId = NoId
       ELSE m.cellGroupId \in GroupsMapped(cellGroupMap, row.cellGroupName)
    /\ m.broughtBy = ValueOrNull(row.broughtBy)
    /\ m.notes = ValueOrNull(row.notes)

\* C30: the step of a commit that updates a record overwrites it with the row:
\* names, email, phone, address, birthday, marital status, status, group and
\* broughtBy, notes are the row's; an optional field the row lacks becomes null,
\* a lacking marital status or status becomes undisclosed or pending_approval,
\* a group name that is lacking or that no group had when the commit read the
\* groups leaves no group assigned; the column the import does not
\* write (journeyStatus) stays; every other record is as it was and no record
\* is added.
C30_UpdateOverwrites ==
    [][\A p \in Procs :
          (WriteStep(p) /\ loc[p].existingMember # NoId)
          => LET e == loc[p].existingMember IN
             /\ Len(members') = Len(members)
             /\ e \in LiveMembers(members)
             /\ Overwritten(members'[e], curRow(loc[p]), loc[p].cellGroupMap)
             /\ members'[e].journeyStatus = members[e].journeyStatus
             /\ \A k \in 1..Len(members) : k # e => members'[k] = members[k]]_vars

\* a commit of the rows Ann Lee (group "Choir") and Bob Ray (birthday
\* 1990-05-15, group "Nobody", no phone) was answered after PATCH /:id/journey
\* had set the journey status of record 2: the commit updated records 1 and 2;
\* record 2, which had the phone 555-1, group 1 and status active, now has no
\* phone, no group and status pending_approval, and the journey status the
\* other route gave it
C30_Witness ==
    \E p \in Procs :
        /\ pc[p] = "done" /\ loc[p].kind = "commit" /\ loc[p].response.code = 200
        /\ lastCommit.log = << [kind |-> "updated", id |-> 1],
                               [kind |-> "updated", id |-> 2] >>
        /\ Len(members) = 2
        /\ members[1].phone = "555-1"
        /\ members[1].cellGroupId = 2
        /\ members[2].phone = Null
        /\ members[2].cellGroupId = NoId
        /\ members[2].status = "pending_approval"
        /\ members[2].birthday = "1990-05-15T00:00:00.000Z"
        /\ members[2].journeyStatus = "contacted"

============================================================================
